---- MODULE Spec2Model ----
(***************************************************************************)
(* Geometry and path-planning core of the Helios scene/survey generator    *)
(* (auto_generated_scene_and_survey_V2.py): floor-plan extraction, inward  *)
(* offset of the footprint, the grid and traditional scan-path planners,   *)
(* the greedy nearest-neighbour ordering, and the run_generation pipeline  *)
(* that chains them.                                                       *)
(*                                                                         *)
(* Numbers.  Mesh and polygon coordinates are integers (metres).  A scan   *)
(* point is a triple <<xn, yn, d>> standing for (xn/d, yn/d): the planners *)
(* add step/2, step/20 and step*1.2^k to polygon coordinates, so their     *)
(* results are kept as exact fractions.  Floating-point rounding of the    *)
(* source is not modelled.                                                 *)
(*                                                                         *)
(* Regions.  A shapely Polygon is kept as its exterior ring together with  *)
(* its extent and the cells of the extent that lie outside it ("gaps").    *)
(* Rings are rectilinear with integer coordinates; for a rectangle         *)
(* (possibly of zero width or height) there is no gap and buffer(),        *)
(* contains(), bounds and centroid are exact.  For any other ring the      *)
(* inward offset is taken with square corners: the library rounds the      *)
(* offset at reflex corners, which changes neither the number of pieces    *)
(* nor their order by area in the shapes used here.                        *)
(*                                                                         *)
(* Threads.  generate_scene_and_survey starts one run_generation thread    *)
(* per call; the threads share the fields of the generator object.         *)
(***************************************************************************)
EXTENDS Integers, Sequences, FiniteSets, TLC

(***************************************************************************)
(* Bounds of the model                                                     *)
(***************************************************************************)
MaxSide == 4

MaxClearance == 2

MaxStep == 2

MaxPoints == 2

MaxVerts == 3

MaxCoord == 1

MaxLen == 4

MaxTourCoord == 6

MaxRuns == 2

MaxSpan == 14

MaxGridSpan == 8

MaxTokens == 3

MaxFaceVerts == 5

MaxFaces == 2

(***************************************************************************)
(* Program constants                                                       *)
(***************************************************************************)
HeightThresholdDen == 10

PercentileQ == 5

SubSampleDiv == 20

MaxAttempts == 10

GrowNum == 6

GrowDen == 5

DefaultMaxPoints == 150

(***************************************************************************)
(* Arithmetic helpers                                                      *)
(***************************************************************************)
Abs(n) == IF n < 0 THEN -n ELSE n

Min2(a, b) == IF a <= b THEN a ELSE b

Max2(a, b) == IF a >= b THEN a ELSE b

SetMin(S) == CHOOSE m \in S : \A n \in S : m <= n

SetMax(S) == CHOOSE m \in S : \A n \in S : m >= n

RECURSIVE Pow(_, _)
Pow(b, e) == IF e = 0 THEN 1 ELSE b * Pow(b, e - 1)

RECURSIVE GCD(_, _)
GCD(a, b) == IF b = 0 THEN a ELSE GCD(b, a % b)

RECURSIVE SetGCD(_)
SetGCD(S) ==
    IF S = {} THEN 0
    ELSE LET n == CHOOSE m \in S : TRUE IN GCD(Abs(n), SetGCD(S \ {n}))

\* ceil(a / b) for b > 0
CeilDiv(a, b) == IF a % b = 0 THEN a \div b ELSE (a \div b) + 1

RECURSIVE SumSeq(_)
SumSeq(s) == IF s = <<>> THEN 0 ELSE Head(s) + SumSeq(Tail(s))

RECURSIVE Flatten(_)
Flatten(ss) == IF ss = <<>> THEN <<>> ELSE Head(ss) \o Flatten(Tail(ss))

Reverse(s) == [i \in 1..Len(s) |-> s[Len(s) + 1 - i]]

Range(s) == {s[i] : i \in 1..Len(s)}

RemoveAt(s, i) == [j \in 1..(Len(s) - 1) |-> IF j < i THEN s[j] ELSE s[j + 1]]

\* floor(sqrt(n)) by bisection on [lo, hi]
RECURSIVE ISqrtIn(_, _, _)
ISqrtIn(n, lo, hi) ==
    IF lo >= hi THEN lo
    ELSE LET mid == (lo + hi + 1) \div 2
         IN  IF mid * mid <= n THEN ISqrtIn(n, mid, hi) ELSE ISqrtIn(n, lo, mid - 1)

ISqrt(n) == ISqrtIn(n, 0, Min2(n, 46340))

\* np.arange(a, b, s) on numerators over one denominator: a, a+s, ... < b
ARange(a, b, s) ==
    LET n == IF b > a THEN CeilDiv(b - a, s) ELSE 0
    IN  [i \in 1..n |-> a + (i - 1) * s]

(***************************************************************************)
(* Floor-plan extraction (extract_floor_plan)                              *)
(***************************************************************************)
\* vertices[idx] of a Python list / numpy array: 0-based, negatives wrap
ValidIndex(n, idx) == idx >= -n /\ idx <= n - 1

PyIndex(s, idx) == IF idx >= 0 THEN s[idx + 1] ELSE s[Len(s) + idx + 1]

RECURSIVE SortAscending(_)
SortAscending(s) ==
    IF s = <<>> THEN <<>>
    ELSE LET i == CHOOSE k \in 1..Len(s) : \A j \in 1..Len(s) : s[k] <= s[j]
         IN  <<s[i]>> \o SortAscending(RemoveAt(s, i))

\* np.percentile(z_values, 5), linear interpolation, as a numerator over 100
Percentile5(zs) ==
    LET srt  == SortAscending(zs)
        rank == PercentileQ * (Len(zs) - 1)
        lo   == rank \div 100
        frac == rank % 100
    IN  IF frac = 0 THEN 100 * srt[lo + 1]
        ELSE 100 * srt[lo + 1] + frac * (srt[lo + 2] - srt[lo + 1])

\* FaceIsGround with the tolerance included: `<= height_threshold`
FaceIsGroundInclusive(vertices, face, gh100) ==
    LET zsum == SumSeq([i \in 1..Len(face) |-> PyIndex(vertices, face[i])[3]])
        k    == Len(face)
    IN  Abs(100 * zsum - k * gh100) * HeightThresholdDen <= 100 * k

\* abs(face_z_avg - ground_height) < height_threshold, threshold 1/HeightThresholdDen
FaceIsGround(vertices, face, gh100) ==
    LET zsum == SumSeq([i \in 1..Len(face) |-> PyIndex(vertices, face[i])[3]])
        k    == Len(face)
    IN  Abs(100 * zsum - k * gh100) * HeightThresholdDen < 100 * k

GroundVertices(vertices, faces) ==
    LET gh100 == Percentile5([i \in 1..Len(vertices) |-> vertices[i][3]])
        FaceVerts(f) == [i \in 1..Len(f) |-> PyIndex(vertices, f[i])]
    IN  Flatten([i \in 1..Len(faces) |->
                    IF FaceIsGround(vertices, faces[i], gh100)
                    THEN FaceVerts(faces[i]) ELSE <<>>])

Cross(a, b, c) == (b[1] - a[1]) * (c[2] - a[2]) - (b[2] - a[2]) * (c[1] - a[1])

Collinear(S) == \A a \in S, b \in S, c \in S : Cross(a, b, c) = 0

OnSegment(a, b, p) ==
    /\ Cross(a, b, p) = 0
    /\ Min2(a[1], b[1]) <= p[1] /\ p[1] <= Max2(a[1], b[1])
    /\ Min2(a[2], b[2]) <= p[2] /\ p[2] <= Max2(a[2], b[2])

InTriangle(a, b, c, p) ==
    /\ Cross(a, b, c) # 0
    /\ \/ Cross(a, b, p) >= 0 /\ Cross(b, c, p) >= 0 /\ Cross(c, a, p) >= 0
       \/ Cross(a, b, p) <= 0 /\ Cross(b, c, p) <= 0 /\ Cross(c, a, p) <= 0

\* the extreme points of S: those not in the convex hull of the others
HullVertexSet(S) ==
    {p \in S : LET R == S \ {p}
               IN  /\ \A a \in R, b \in R : ~OnSegment(a, b, p)
                   /\ \A a \in R, b \in R, c \in R : ~InTriangle(a, b, c, p)}

RECURSIVE HullWalk(_, _, _)
HullWalk(H, start, p) ==
    LET q == CHOOSE r \in H \ {p} : \A t \in H \ {p, r} : Cross(p, r, t) > 0
    IN  IF q = start THEN <<p>> ELSE <<p>> \o HullWalk(H, start, q)

\* scipy ConvexHull(points).vertices for 2-D input: the extreme points in
\* counter-clockwise order (taken here from the lexicographically least one)
HullVertices(S) ==
    LET H     == HullVertexSet(S)
        start == CHOOSE p \in H : \A q \in H : p[1] < q[1] \/ (p[1] = q[1] /\ p[2] <= q[2])
    IN  HullWalk(H, start, start)

BoundingRectangle(xy) ==
    LET min_x == SetMin({xy[i][1] : i \in 1..Len(xy)})
        min_y == SetMin({xy[i][2] : i \in 1..Len(xy)})
        max_x == SetMax({xy[i][1] : i \in 1..Len(xy)})
        max_y == SetMax({xy[i][2] : i \in 1..Len(xy)})
    IN  << <<min_x, min_y>>, <<max_x, min_y>>, <<max_x, max_y>>, <<min_x, max_y>>, <<min_x, min_y>> >>

\* extract_floor_plan without boundary_points.append(boundary_points[0])
ExtractFloorPlanOpenRing(vertices, faces, hasScipy) ==
    LET gv     == GroundVertices(vertices, faces)
        ground == IF gv = <<>> THEN vertices ELSE gv
        xy     == [i \in 1..Len(ground) |-> <<ground[i][1], ground[i][2]>>]
    IN  IF hasScipy /\ Len(xy) >= 3 /\ ~Collinear(Range(xy))
        THEN [raised |-> FALSE, boundary |-> HullVertices(Range(xy)), taken |-> {}]
        ELSE [raised |-> FALSE, boundary |-> BoundingRectangle(xy), taken |-> {"bounding_rectangle"}]

\* extract_floor_plan: the ring it returns, whether it raised, and the
\* fallbacks it took on the way
ExtractFloorPlan(vertices, faces, hasScipy) ==
    IF \/ vertices = <<>>
       \/ \E i \in 1..Len(faces) : \E j \in 1..Len(faces[i]) :
              ~ValidIndex(Len(vertices), faces[i][j])
    THEN [raised |-> TRUE, boundary |-> <<>>, taken |-> {}]
    ELSE LET gv     == GroundVertices(vertices, faces)
             ground == IF gv = <<>> THEN vertices ELSE gv
             xy     == [i \in 1..Len(ground) |-> <<ground[i][1], ground[i][2]>>]
             fbAll  == IF gv = <<>> THEN {"all_vertices"} ELSE {}
         IN  IF hasScipy /\ Len(xy) >= 3 /\ ~Collinear(Range(xy))
             THEN LET hull == HullVertices(Range(xy))
                  IN  [raised |-> FALSE, boundary |-> Append(hull, hull[1]), taken |-> fbAll]
             ELSE [raised |-> FALSE, boundary |-> BoundingRectangle(xy),
                   taken |-> fbAll \cup {"bounding_rectangle"}]

(***************************************************************************)
(* Regions (shapely Polygon of an axis-aligned rectangle)                  *)
(***************************************************************************)
\* boundary_points[:-1]
DropLast(s) == SubSeq(s, 1, Len(s) - 1)

\* the distinct members of S in ascending order
RECURSIVE SortedSeq(_)
SortedSeq(S) ==
    IF S = {} THEN <<>>
    ELSE LET m == SetMin(S) IN <<m>> \o SortedSeq(S \ {m})

\* the cells <<x0, y0, x1, y1>> of the lattice drawn through xs and ys
GridCells(xs, ys) ==
    {<<xs[i], ys[j], xs[i + 1], ys[j + 1]>> : i \in 1..(Len(xs) - 1), j \in 1..(Len(ys) - 1)}

\* every vertex is a corner of the extent and every edge is axis-parallel:
\* the ring is a rectangle
IsBox(coords) ==
    LET n  == Len(coords)
        xs == {coords[i][1] : i \in 1..n}
        ys == {coords[i][2] : i \in 1..n}
    IN  /\ \A i \in 1..n : coords[i][1] \in {SetMin(xs), SetMax(xs)}
        /\ \A i \in 1..n : coords[i][2] \in {SetMin(ys), SetMax(ys)}
        /\ \A i \in 1..n : LET a == coords[i]
                               b == coords[(i % n) + 1]
                           IN  a[1] = b[1] \/ a[2] = b[2]

\* the centre of cell c lies inside the rectilinear ring: an odd number of
\* vertical edges to its right span its height
InsideRing(coords, c) ==
    LET n == Len(coords)
        crossing == {k \in 1..n :
                        LET a == coords[k]
                            b == coords[(k % n) + 1]
                        IN  /\ a[1] = b[1]
                            /\ 2 * a[1] > c[1] + c[3]
                            /\ 2 * Min2(a[2], b[2]) < c[2] + c[4]
                            /\ c[2] + c[4] < 2 * Max2(a[2], b[2])}
    IN  Cardinality(crossing) % 2 = 1

\* Polygon(boundary_coords): the polygon keeps the coordinates it is given,
\* together with their extent and the cells of the extent outside the ring
Polygon(coords) ==
    LET xs == {coords[i][1] : i \in 1..Len(coords)}
        ys == {coords[i][2] : i \in 1..Len(coords)}
    IN  [empty |-> FALSE, ring |-> coords,
         gaps  |-> IF IsBox(coords) THEN {}
                   ELSE {c \in GridCells(SortedSeq(xs), SortedSeq(ys)) : ~InsideRing(coords, c)},
         min_x |-> SetMin(xs), min_y |-> SetMin(ys),
         max_x |-> SetMax(xs), max_y |-> SetMax(ys)]

EmptyPolygon ==
    [empty |-> TRUE, ring |-> <<>>, gaps |-> {}, min_x |-> 0, min_y |-> 0, max_x |-> 0, max_y |-> 0]

\* scan_polygon.bounds = (min_x, min_y, max_x, max_y)
Bounds(poly) ==
    [min_x |-> poly.min_x, min_y |-> poly.min_y, max_x |-> poly.max_x, max_y |-> poly.max_y]

CellArea(c) == (c[3] - c[1]) * (c[4] - c[2])

\* sum of CellArea(c) * weight over the cells of S; weight 0: 1, weight 1:
\* x0 + x1, weight 2: y0 + y1
RECURSIVE SumCells(_, _)
SumCells(S, weight) ==
    IF S = {} THEN 0
    ELSE LET c == CHOOSE d \in S : TRUE
             w == CASE weight = 0 -> 1
                    [] weight = 1 -> c[1] + c[3]
                    [] weight = 2 -> c[2] + c[4]
         IN  CellArea(c) * w + SumCells(S \ {c}, weight)

\* geom.area
Area(poly) ==
    (poly.max_x - poly.min_x) * (poly.max_y - poly.min_y) - SumCells(poly.gaps, 0)

\* two cells of one lattice share a side
Adjacent(c, e) ==
    \/ (c[3] = e[1] \/ e[3] = c[1]) /\ c[2] = e[2] /\ c[4] = e[4]
    \/ (c[4] = e[2] \/ e[4] = c[2]) /\ c[1] = e[1] /\ c[3] = e[3]

\* the cells of `cells` connected to `seed` through shared sides
RECURSIVE Grow(_, _)
Grow(seed, cells) ==
    LET next == seed \cup {c \in cells : \E s \in seed : Adjacent(c, s)}
    IN  IF next = seed THEN seed ELSE Grow(next, cells)

\* the least cell of S, by lower-left corner
LeastCell(S) ==
    CHOOSE c \in S : \A e \in S : c[1] < e[1] \/ (c[1] = e[1] /\ c[2] <= e[2])

\* the connected pieces of a set of cells, in the order of their least cells
RECURSIVE Components(_)
Components(cells) ==
    IF cells = {} THEN <<>>
    ELSE LET comp == Grow({LeastCell(cells)}, cells)
         IN  <<comp>> \o Components(cells \ comp)

\* the sides of the cells of P that no other cell of P shares, directed so
\* that P lies to their right
BoundaryEdges(P) ==
    {<< <<c[1], c[2]>>, <<c[1], c[4]>> >> :
        c \in {d \in P : ~\E e \in P : e[3] = d[1] /\ e[2] = d[2] /\ e[4] = d[4]}}
    \cup {<< <<c[1], c[4]>>, <<c[3], c[4]>> >> :
        c \in {d \in P : ~\E e \in P : e[2] = d[4] /\ e[1] = d[1] /\ e[3] = d[3]}}
    \cup {<< <<c[3], c[4]>>, <<c[3], c[2]>> >> :
        c \in {d \in P : ~\E e \in P : e[1] = d[3] /\ e[2] = d[2] /\ e[4] = d[4]}}
    \cup {<< <<c[3], c[2]>>, <<c[1], c[2]>> >> :
        c \in {d \in P : ~\E e \in P : e[4] = d[2] /\ e[1] = d[1] /\ e[3] = d[3]}}

RECURSIVE RingWalk(_, _, _)
RingWalk(E, start, v) ==
    LET e == CHOOSE f \in E : f[1] = v
    IN  IF e[2] = start THEN <<v>> ELSE <<v>> \o RingWalk(E, start, e[2])

\* exterior.coords of a connected set of cells, without the closing point:
\* the outline walked from its least vertex, corners only
ExteriorRing(P) ==
    LET least == LeastCell(P)
        start == <<least[1], least[2]>>
        walk  == RingWalk(BoundaryEdges(P), start, start)
        n     == Len(walk)
        turn  == {i \in 1..n :
                     LET a == walk[((i + n - 2) % n) + 1]
                         b == walk[(i % n) + 1]
                     IN  (walk[i][1] - a[1]) * (b[2] - walk[i][2])
                         # (walk[i][2] - a[2]) * (b[1] - walk[i][1])}
        idx   == SortedSeq(turn)
    IN  [k \in 1..Len(idx) |-> walk[idx[k]]]

\* the polygon covering the cells P of the lattice G
PieceOf(P, G) ==
    LET x0 == SetMin({c[1] : c \in P})
        y0 == SetMin({c[2] : c \in P})
        x1 == SetMax({c[3] : c \in P})
        y1 == SetMax({c[4] : c \in P})
    IN  [empty |-> FALSE, ring |-> ExteriorRing(P),
         gaps  |-> {c \in G \ P : x0 <= c[1] /\ c[3] <= x1 /\ y0 <= c[2] /\ c[4] <= y1},
         min_x |-> x0, min_y |-> y0, max_x |-> x1, max_y |-> y1]

\* buffer(-dist) of a polygon that is not a rectangle: the extent shrinks by
\* dist and every gap grows by dist; what is left falls into connected
\* pieces.  One piece is a Polygon, several are a MultiPolygon with .geoms
Erode(poly, dist) ==
    LET x0 == poly.min_x + dist
        y0 == poly.min_y + dist
        x1 == poly.max_x - dist
        y1 == poly.max_y - dist
        grown == {<<g[1] - dist, g[2] - dist, g[3] + dist, g[4] + dist>> : g \in poly.gaps}
        xs == SortedSeq({x0, x1} \cup {v \in {g[1] : g \in grown} \cup {g[3] : g \in grown} :
                                           x0 < v /\ v < x1})
        ys == SortedSeq({y0, y1} \cup {v \in {g[2] : g \in grown} \cup {g[4] : g \in grown} :
                                           y0 < v /\ v < y1})
        G  == GridCells(xs, ys)
        kept == {c \in G : \A g \in grown :
                    ~(g[1] < c[3] /\ c[1] < g[3] /\ g[2] < c[4] /\ c[2] < g[4])}
        pieces == Components(kept)
    IN  IF x0 >= x1 \/ y0 >= y1 \/ kept = {} THEN EmptyPolygon
        ELSE IF Len(pieces) = 1 THEN PieceOf(pieces[1], G)
        ELSE [empty |-> FALSE, geoms |-> [i \in 1..Len(pieces) |-> PieceOf(pieces[i], G)]]

\* Buffer with the sign of the distance lost: buffer(dist) grows the rectangle
BufferOutward(poly, dist) ==
    Polygon(<< <<poly.min_x - dist, poly.min_y - dist>>, <<poly.min_x - dist, poly.max_y + dist>>,
               <<poly.max_x + dist, poly.max_y + dist>>, <<poly.max_x + dist, poly.min_y - dist>> >>)

\* house_polygon.buffer(-dist).  A rectangle is shrunk by dist on every side
\* and is empty once dist reaches half of its shorter side
Buffer(poly, dist) ==
    LET b == Bounds(poly)
    IN  IF poly.gaps # {} THEN Erode(poly, dist)
        ELSE IF 2 * dist < b.max_x - b.min_x /\ 2 * dist < b.max_y - b.min_y
        THEN Polygon(<< <<b.min_x + dist, b.min_y + dist>>, <<b.min_x + dist, b.max_y - dist>>,
                        <<b.max_x - dist, b.max_y - dist>>, <<b.max_x - dist, b.min_y + dist>> >>)
        ELSE EmptyPolygon

\* scan_polygon.contains(Point(x, y)) for the point (p[1]/p[3], p[2]/p[3]):
\* the interior only, boundary points are not contained
Contains(poly, p) ==
    /\ ~poly.empty
    /\ poly.min_x * p[3] < p[1] /\ p[1] < poly.max_x * p[3]
    /\ poly.min_y * p[3] < p[2] /\ p[2] < poly.max_y * p[3]
    /\ \A g \in poly.gaps :
           ~(g[1] * p[3] <= p[1] /\ p[1] <= g[3] * p[3] /\ g[2] * p[3] <= p[2] /\ p[2] <= g[4] * p[3])

\* polygon.centroid (for a zero-area rectangle GEOS falls back to the centroid
\* of its edges or points, which is the same midpoint)
Centroid(poly) ==
    LET b == Bounds(poly)
    IN  IF poly.gaps = {} THEN <<b.min_x + b.max_x, b.min_y + b.max_y, 2>>
        ELSE LET box == (b.max_x - b.min_x) * (b.max_y - b.min_y)
             IN  <<box * (b.min_x + b.max_x) - SumCells(poly.gaps, 1),
                   box * (b.min_y + b.max_y) - SumCells(poly.gaps, 2),
                   2 * Area(poly)>>

RECURSIVE FilterContained(_, _)
FilterContained(poly, pts) ==
    IF pts = <<>> THEN <<>>
    ELSE IF Contains(poly, Head(pts))
         THEN <<Head(pts)>> \o FilterContained(poly, Tail(pts))
         ELSE FilterContained(poly, Tail(pts))

(***************************************************************************)
(* Greedy nearest-neighbour ordering                                       *)
(***************************************************************************)
\* a common divisor of every coordinate difference of the list: distances are
\* compared after dividing by it, which keeps the squares small and the
\* comparison exact
DiffUnit(points) ==
    LET g == SetGCD({points[i][1] - points[1][1] : i \in 1..Len(points)}
                    \cup {points[i][2] - points[1][2] : i \in 1..Len(points)})
    IN  IF g = 0 THEN 1 ELSE g

\* squared Euclidean distance of two points of one list, in units of g
Dist2(p, q, g) ==
    ((p[1] - q[1]) \div g) * ((p[1] - q[1]) \div g) + ((p[2] - q[2]) \div g) * ((p[2] - q[2]) \div g)

\* NearestIdx with max() in place of min()
FarthestIdx(current, unvisited, g) ==
    CHOOSE i \in 1..Len(unvisited) :
        /\ \A j \in 1..Len(unvisited) : Dist2(current, unvisited[i], g) >= Dist2(current, unvisited[j], g)
        /\ \A j \in 1..(i - 1) : Dist2(current, unvisited[j], g) < Dist2(current, unvisited[i], g)

\* NearestIdx that keeps the last index of a minimal distance
NearestIdxLastTie(current, unvisited, g) ==
    CHOOSE i \in 1..Len(unvisited) :
        /\ \A j \in 1..Len(unvisited) : Dist2(current, unvisited[i], g) <= Dist2(current, unvisited[j], g)
        /\ \A j \in (i + 1)..Len(unvisited) : Dist2(current, unvisited[j], g) > Dist2(current, unvisited[i], g)

\* distances.index(min(distances)): the first index of a minimal distance
NearestIdx(current, unvisited, g) ==
    CHOOSE i \in 1..Len(unvisited) :
        /\ \A j \in 1..Len(unvisited) : Dist2(current, unvisited[i], g) <= Dist2(current, unvisited[j], g)
        /\ \A j \in 1..(i - 1) : Dist2(current, unvisited[j], g) > Dist2(current, unvisited[i], g)

\* VisitNearest with the pop on the wrong index: the first remaining point is
\* appended while the nearest one is removed
RECURSIVE VisitNearestKeepsFirst(_, _, _)
VisitNearestKeepsFirst(current, unvisited, g) ==
    IF unvisited = <<>> THEN <<>>
    ELSE LET nearest_idx == CHOOSE i \in 1..Len(unvisited) :
                                \A j \in 1..Len(unvisited) :
                                    \/ Dist2(current, unvisited[i], g) < Dist2(current, unvisited[j], g)
                                    \/ (Dist2(current, unvisited[i], g) = Dist2(current, unvisited[j], g) /\ i <= j)
         IN  <<unvisited[1]>>
             \o VisitNearestKeepsFirst(unvisited[1], RemoveAt(unvisited, nearest_idx), g)

RECURSIVE VisitNearest(_, _, _)
VisitNearest(current, unvisited, g) ==
    IF unvisited = <<>> THEN <<>>
    ELSE LET nearest_idx == NearestIdx(current, unvisited, g)
         IN  <<unvisited[nearest_idx]>>
             \o VisitNearest(unvisited[nearest_idx], RemoveAt(unvisited, nearest_idx), g)

\* the loop of _generate_grid_points: start at the first grid point
GridNearestNeighbor(grid_points) ==
    IF grid_points = <<>> THEN <<>>
    ELSE <<Head(grid_points)>>
         \o VisitNearest(Head(grid_points), Tail(grid_points), DiffUnit(grid_points))

\* nearest_neighbor_path of _generate_traditional_scan_path
nearest_neighbor_path(points) ==
    IF Len(points) <= 1 THEN points
    ELSE <<Head(points)>> \o VisitNearest(Head(points), Tail(points), DiffUnit(points))

(***************************************************************************)
(* Grid-mode strategies.  Coordinates are numerators over SubSampleDiv.    *)
(***************************************************************************)
\* HorizontalLine with the parity test turned round: `if i % 2 == 0`
HorizontalLineEvenReversed(scan_polygon, min_x, max_x, i, y, step) ==
    LET x_test_points == ARange(SubSampleDiv * min_x, SubSampleDiv * max_x + step, step)
        x_points == {x \in Range(x_test_points) : Contains(scan_polygon, <<x, y, SubSampleDiv>>)}
    IN  IF x_points = {} THEN <<>>
        ELSE LET x_start == SetMin(x_points)
                 x_end   == SetMax(x_points)
                 fwd     == ARange(x_start, x_end + (SubSampleDiv \div 2) * step, SubSampleDiv * step)
                 x_scan_points == IF i % 2 = 0 THEN Reverse(fwd) ELSE fwd
             IN  FilterContained(scan_polygon,
                     [k \in 1..Len(x_scan_points) |-> <<x_scan_points[k], y, SubSampleDiv>>])

\* HorizontalLine without the contains test on the re-sampled points
HorizontalLineUnfiltered(scan_polygon, min_x, max_x, i, y, step) ==
    LET x_test_points == ARange(SubSampleDiv * min_x, SubSampleDiv * max_x + step, step)
        x_points == {x \in Range(x_test_points) : Contains(scan_polygon, <<x, y, SubSampleDiv>>)}
    IN  IF x_points = {} THEN <<>>
        ELSE LET x_start == SetMin(x_points)
                 x_end   == SetMax(x_points)
                 fwd     == ARange(x_start, x_end + (SubSampleDiv \div 2) * step, SubSampleDiv * step)
                 x_scan_points == IF i % 2 = 1 THEN Reverse(fwd) ELSE fwd
             IN  [k \in 1..Len(x_scan_points) |-> <<x_scan_points[k], y, SubSampleDiv>>]

\* one scan line of _generate_horizontal_scan: line index i (from 0), height y
HorizontalLine(scan_polygon, min_x, max_x, i, y, step) ==
    LET x_test_points == ARange(SubSampleDiv * min_x, SubSampleDiv * max_x + step, step)
        x_points == {x \in Range(x_test_points) : Contains(scan_polygon, <<x, y, SubSampleDiv>>)}
    IN  IF x_points = {} THEN <<>>
        ELSE LET x_start == SetMin(x_points)
                 x_end   == SetMax(x_points)
                 fwd     == ARange(x_start, x_end + (SubSampleDiv \div 2) * step, SubSampleDiv * step)
                 x_scan_points == IF i % 2 = 1 THEN Reverse(fwd) ELSE fwd
             IN  FilterContained(scan_polygon,
                     [k \in 1..Len(x_scan_points) |-> <<x_scan_points[k], y, SubSampleDiv>>])

\* _generate_horizontal_scan with the first line on the lower edge:
\* np.arange(min_y, max_y, step)
HorizontalScanFromEdge(scan_polygon, min_x, max_x, min_y, max_y, step) ==
    LET y_positions == ARange(SubSampleDiv * min_y, SubSampleDiv * max_y, SubSampleDiv * step)
    IN  Flatten([n \in 1..Len(y_positions) |->
                    HorizontalLine(scan_polygon, min_x, max_x, n - 1, y_positions[n], step)])

_generate_horizontal_scan(scan_polygon, min_x, max_x, min_y, max_y, step) ==
    LET y_positions == ARange(SubSampleDiv * min_y + (SubSampleDiv \div 2) * step,
                              SubSampleDiv * max_y, SubSampleDiv * step)
    IN  Flatten([n \in 1..Len(y_positions) |->
                    HorizontalLine(scan_polygon, min_x, max_x, n - 1, y_positions[n], step)])

\* VerticalLine with the parity test turned round: `if i % 2 == 0`
VerticalLineEvenReversed(scan_polygon, min_y, max_y, i, x, step) ==
    LET y_test_points == ARange(SubSampleDiv * min_y, SubSampleDiv * max_y + step, step)
        y_points == {y \in Range(y_test_points) : Contains(scan_polygon, <<x, y, SubSampleDiv>>)}
    IN  IF y_points = {} THEN <<>>
        ELSE LET y_start == SetMin(y_points)
                 y_end   == SetMax(y_points)
                 fwd     == ARange(y_start, y_end + (SubSampleDiv \div 2) * step, SubSampleDiv * step)
                 y_scan_points == IF i % 2 = 0 THEN Reverse(fwd) ELSE fwd
             IN  FilterContained(scan_polygon,
                     [k \in 1..Len(y_scan_points) |-> <<x, y_scan_points[k], SubSampleDiv>>])

\* one scan column of _generate_vertical_scan: column index i (from 0), abscissa x
VerticalLine(scan_polygon, min_y, max_y, i, x, step) ==
    LET y_test_points == ARange(SubSampleDiv * min_y, SubSampleDiv * max_y + step, step)
        y_points == {y \in Range(y_test_points) : Contains(scan_polygon, <<x, y, SubSampleDiv>>)}
    IN  IF y_points = {} THEN <<>>
        ELSE LET y_start == SetMin(y_points)
                 y_end   == SetMax(y_points)
                 fwd     == ARange(y_start, y_end + (SubSampleDiv \div 2) * step, SubSampleDiv * step)
                 y_scan_points == IF i % 2 = 1 THEN Reverse(fwd) ELSE fwd
             IN  FilterContained(scan_polygon,
                     [k \in 1..Len(y_scan_points) |-> <<x, y_scan_points[k], SubSampleDiv>>])

_generate_vertical_scan(scan_polygon, min_x, max_x, min_y, max_y, step) ==
    LET x_positions == ARange(SubSampleDiv * min_x + (SubSampleDiv \div 2) * step,
                              SubSampleDiv * max_x, SubSampleDiv * step)
    IN  Flatten([n \in 1..Len(x_positions) |->
                    VerticalLine(scan_polygon, min_y, max_y, n - 1, x_positions[n], step)])

\* GridCandidates generated row by row: y in the outer loop, x in the inner
GridCandidatesRowMajor(scan_polygon, min_x, max_x, min_y, max_y, step) ==
    LET x_positions == ARange(SubSampleDiv * min_x + (SubSampleDiv \div 2) * step,
                              SubSampleDiv * max_x, SubSampleDiv * step)
        y_positions == ARange(SubSampleDiv * min_y + (SubSampleDiv \div 2) * step,
                              SubSampleDiv * max_y, SubSampleDiv * step)
    IN  Flatten([b \in 1..Len(y_positions) |->
                    FilterContained(scan_polygon,
                        [a \in 1..Len(x_positions) |-> <<x_positions[a], y_positions[b], SubSampleDiv>>])])

\* the candidate list of _generate_grid_points: x outer, y inner
GridCandidates(scan_polygon, min_x, max_x, min_y, max_y, step) ==
    LET x_positions == ARange(SubSampleDiv * min_x + (SubSampleDiv \div 2) * step,
                              SubSampleDiv * max_x, SubSampleDiv * step)
        y_positions == ARange(SubSampleDiv * min_y + (SubSampleDiv \div 2) * step,
                              SubSampleDiv * max_y, SubSampleDiv * step)
    IN  Flatten([a \in 1..Len(x_positions) |->
                    FilterContained(scan_polygon,
                        [b \in 1..Len(y_positions) |-> <<x_positions[a], y_positions[b], SubSampleDiv>>])])

_generate_grid_points(scan_polygon, min_x, max_x, min_y, max_y, step) ==
    GridNearestNeighbor(GridCandidates(scan_polygon, min_x, max_x, min_y, max_y, step))

(***************************************************************************)
(* The offset step shared by both planners                                 *)
(***************************************************************************)
\* areas.index(max(areas)): the first piece of the largest area
MaxAreaIdx(geoms) ==
    CHOOSE i \in 1..Len(geoms) :
        /\ \A j \in 1..Len(geoms) : Area(geoms[i]) >= Area(geoms[j])
        /\ \A j \in 1..(i - 1) : Area(geoms[j]) < Area(geoms[i])

\* SelectPiece with min() in place of max()
SelectSmallestPiece(inner_polygon) ==
    IF "geoms" \in DOMAIN inner_polygon
    THEN inner_polygon.geoms[CHOOSE i \in 1..Len(inner_polygon.geoms) :
             /\ \A j \in 1..Len(inner_polygon.geoms) :
                    Area(inner_polygon.geoms[i]) <= Area(inner_polygon.geoms[j])
             /\ \A j \in 1..(i - 1) :
                    Area(inner_polygon.geoms[j]) > Area(inner_polygon.geoms[i])]
    ELSE inner_polygon

\* if hasattr(inner_polygon, 'geoms'): keep the piece of the largest area
SelectPiece(inner_polygon) ==
    IF "geoms" \in DOMAIN inner_polygon
    THEN inner_polygon.geoms[MaxAreaIdx(inner_polygon.geoms)]
    ELSE inner_polygon

\* OffsetStep without the early return: an empty offset is ignored and
\* planning goes on over the house polygon
OffsetStepNoEarlyReturn(boundary_points, boundary_distance, raises, grid) ==
    LET house_polygon == Polygon(DropLast(boundary_points))
        inner_polygon == Buffer(house_polygon, boundary_distance)
    IN  IF boundary_distance > 0 /\ ~raises /\ ~inner_polygon.empty
        THEN [early |-> FALSE, scan_polygon |-> SelectPiece(inner_polygon), path |-> <<>>,
              logs |-> {"clearance_applied"}, taken |-> {}]
        ELSE [early |-> FALSE, scan_polygon |-> house_polygon, path |-> <<>>,
              logs |-> {}, taken |-> IF raises THEN {"offset_exception"} ELSE {}]

\* OffsetStep with `boundary_distance >= 0`: the offset is computed for a zero
\* clearance too
OffsetStepAlwaysBuffers(boundary_points, boundary_distance, raises, grid) ==
    LET house_polygon == Polygon(DropLast(boundary_points))
        inner_polygon == Buffer(house_polygon, boundary_distance)
    IN  IF raises
        THEN [early |-> FALSE, scan_polygon |-> house_polygon, path |-> <<>>,
              logs |-> {"offset_error"}, taken |-> {"offset_exception"}]
        ELSE IF inner_polygon.empty
             THEN [early |-> TRUE, scan_polygon |-> inner_polygon,
                   path |-> <<Centroid(house_polygon)>>,
                   logs |-> {"clearance_too_large"}, taken |-> {"degenerate_offset"}]
             ELSE [early |-> FALSE, scan_polygon |-> SelectPiece(inner_polygon), path |-> <<>>,
                   logs |-> {"clearance_applied"}, taken |-> {}]

\* the offset step of both planners: either the early centroid return,
\* or the region the planner goes on with.  raises: buffer() threw.
OffsetStep(boundary_points, boundary_distance, raises, grid) ==
    LET house_polygon == Polygon(DropLast(boundary_points))
    IN  IF boundary_distance > 0
        THEN IF raises
             THEN [early |-> FALSE, scan_polygon |-> house_polygon, path |-> <<>>,
                   logs |-> IF grid THEN {"offset_error", "use_original_region"} ELSE {"offset_error"},
                   taken |-> {"offset_exception"}]
             ELSE LET inner_polygon == Buffer(house_polygon, boundary_distance)
                  IN  IF inner_polygon.empty
                      THEN [early |-> TRUE, scan_polygon |-> inner_polygon,
                            path |-> <<Centroid(house_polygon)>>,
                            logs |-> IF grid THEN {"clearance_too_large", "use_house_center"}
                                             ELSE {"clearance_too_large"},
                            taken |-> {"degenerate_offset"}]
                      ELSE [early |-> FALSE, scan_polygon |-> SelectPiece(inner_polygon),
                            path |-> <<>>, logs |-> {"clearance_applied"}, taken |-> {}]
        ELSE [early |-> FALSE, scan_polygon |-> house_polygon, path |-> <<>>,
              logs |-> {}, taken |-> {}]

(***************************************************************************)
(* _generate_grid_scan_path                                                *)
(***************************************************************************)
\* the points of s that do not occur in seen
RECURSIVE NotIn(_, _)
NotIn(s, seen) ==
    IF s = <<>> THEN <<>>
    ELSE (IF Head(s) \in Range(seen) THEN <<>> ELSE <<Head(s)>>) \o NotIn(Tail(s), seen)

\* GridStrategy whose 'both' drops from the vertical pass the points the
\* horizontal pass has already produced
GridStrategyDeduplicated(scan_polygon, scan_direction, step) ==
    LET b == Bounds(scan_polygon)
        horizontal_path == _generate_horizontal_scan(scan_polygon, b.min_x, b.max_x, b.min_y, b.max_y, step)
        vertical_path   == _generate_vertical_scan(scan_polygon, b.min_x, b.max_x, b.min_y, b.max_y, step)
    IN  CASE scan_direction = "horizontal" -> horizontal_path
          [] scan_direction = "vertical"   -> vertical_path
          [] scan_direction = "both"       -> horizontal_path \o NotIn(vertical_path, horizontal_path)
          [] scan_direction = "grid"       ->
                 _generate_grid_points(scan_polygon, b.min_x, b.max_x, b.min_y, b.max_y, step)

\* the strategy the scan direction selects, over the active region
GridStrategy(scan_polygon, scan_direction, step) ==
    LET b == Bounds(scan_polygon)
        horizontal_path == _generate_horizontal_scan(scan_polygon, b.min_x, b.max_x, b.min_y, b.max_y, step)
        vertical_path   == _generate_vertical_scan(scan_polygon, b.min_x, b.max_x, b.min_y, b.max_y, step)
    IN  CASE scan_direction = "horizontal" -> horizontal_path
          [] scan_direction = "vertical"   -> vertical_path
          [] scan_direction = "both"       -> horizontal_path \o vertical_path
          [] scan_direction = "grid"       ->
                 _generate_grid_points(scan_polygon, b.min_x, b.max_x, b.min_y, b.max_y, step)

\* _generate_grid_scan_path from the offset step on
GridPathOver(off, scan_direction, step) ==
    IF off.early THEN [path |-> off.path, region |-> off.scan_polygon,
                       logs |-> off.logs, taken |-> off.taken]
    ELSE LET scan_path == GridStrategy(off.scan_polygon, scan_direction, step)
         IN  IF scan_path = <<>>
             THEN [path |-> <<Centroid(off.scan_polygon)>>, region |-> off.scan_polygon,
                   logs |-> off.logs \cup {"no_valid_scan_point", "grid_config"},
                   taken |-> off.taken \cup {"empty_strategy"}]
             ELSE [path |-> scan_path, region |-> off.scan_polygon,
                   logs |-> off.logs \cup {"grid_config"}, taken |-> off.taken]

\* _generate_grid_scan_path whose fallback for an empty strategy is
\* house_polygon.centroid
GridScanPathHouseCentroid(boundary_points, step, boundary_distance, scan_direction, raises) ==
    CHOOSE r \in {IF "empty_strategy" \in g.taken
                  THEN [g EXCEPT !.path = <<Centroid(Polygon(DropLast(boundary_points)))>>]
                  ELSE g :
                     g \in {GridPathOver(off, scan_direction, step) :
                               off \in {OffsetStep(boundary_points, boundary_distance, raises, TRUE)}}} : TRUE

_generate_grid_scan_path(boundary_points, step, boundary_distance, scan_direction, raises) ==
    CHOOSE r \in {GridPathOver(off, scan_direction, step) :
                     off \in {OffsetStep(boundary_points, boundary_distance, raises, TRUE)}} : TRUE

(***************************************************************************)
(* _generate_traditional_scan_path                                         *)
(***************************************************************************)
\* the in-region grid of sampling attempt `attempt`: current_step is
\* step * (GrowNum/GrowDen)^attempt, coordinates are numerators over
\* 2 * GrowDen^attempt
AttemptPoints(scan_polygon, step, attempt) ==
    LET b    == Bounds(scan_polygon)
        den  == 2 * Pow(GrowDen, attempt)
        half == step * Pow(GrowNum, attempt)
        x_range == ARange(b.min_x * den + half, b.max_x * den - half, 2 * half)
        y_range == ARange(b.min_y * den + half, b.max_y * den - half, 2 * half)
    IN  Flatten([a \in 1..Len(x_range) |->
                    FilterContained(scan_polygon,
                        [c \in 1..Len(y_range) |-> <<x_range[a], y_range[c], den>>])])

\* AdaptiveLoop with `if len(valid_points) < target_points: break`
RECURSIVE AdaptiveLoopStopsBelow(_, _, _, _)
AdaptiveLoopStopsBelow(scan_polygon, step, target_points, attempt) ==
    LET valid_points == AttemptPoints(scan_polygon, step, attempt)
    IN  IF Len(valid_points) < target_points \/ attempt = MaxAttempts - 1
        THEN [valid_points |-> valid_points, attempt |-> attempt]
        ELSE AdaptiveLoopStopsBelow(scan_polygon, step, target_points, attempt + 1)

\* AdaptiveLoop with the step grown before the count is tested: the loop ends
\* one attempt late
AdaptiveLoopGrowsFirst(scan_polygon, step, target_points, attempt) ==
    LET ends == {k \in attempt..(MaxAttempts - 1) :
                    Len(AttemptPoints(scan_polygon, step, k)) <= target_points \/ k = MaxAttempts - 1}
        last == Min2(SetMin(ends) + 1, MaxAttempts - 1)
    IN  [valid_points |-> AttemptPoints(scan_polygon, step, last), attempt |-> last]

\* for attempt in range(10): the points of the attempt the loop ends on
RECURSIVE AdaptiveLoop(_, _, _, _)
AdaptiveLoop(scan_polygon, step, target_points, attempt) ==
    LET valid_points == AttemptPoints(scan_polygon, step, attempt)
    IN  IF Len(valid_points) <= target_points \/ attempt = MaxAttempts - 1
        THEN [valid_points |-> valid_points, attempt |-> attempt]
        ELSE AdaptiveLoop(scan_polygon, step, target_points, attempt + 1)

\* random.choices(population, k=k): positions may repeat
SamplesWithReplacement(population, k) ==
    {[i \in 1..k |-> population[f[i]]] : f \in [1..k -> 1..Len(population)]}

\* random.sample(population, k): every ordered choice of k distinct positions
Samples(population, k) ==
    {[i \in 1..k |-> population[f[i]]] :
        f \in {g \in [1..k -> 1..Len(population)] : \A i, j \in 1..k : i # j => g[i] # g[j]}}

\* TraditionalPathsOver with random.sample applied to every point list, also
\* one that is within max_points
TraditionalPathsAlwaysSampled(off, step, max_points) ==
    IF off.early
    THEN {[raised |-> FALSE, path |-> off.path, region |-> off.scan_polygon,
           logs |-> off.logs, taken |-> off.taken]}
    ELSE LET loop   == AdaptiveLoop(off.scan_polygon, step, max_points, 0)
             nofb   == loop.valid_points = <<>>
             valid_points == IF nofb THEN <<Centroid(off.scan_polygon)>> ELSE loop.valid_points
             taken1 == off.taken \cup (IF nofb THEN {"no_valid_point"} ELSE {})
         IN  IF max_points < 0
             THEN {[raised |-> TRUE, path |-> <<>>, region |-> off.scan_polygon,
                    logs |-> off.logs, taken |-> taken1 \cup {"subsample"}]}
             ELSE {[raised |-> FALSE, path |-> nearest_neighbor_path(smp),
                    region |-> off.scan_polygon,
                    logs |-> off.logs \cup {"traditional_config"},
                    taken |-> taken1 \cup (IF Len(valid_points) > max_points
                                           THEN {"subsample"} ELSE {})] :
                       smp \in Samples(valid_points, Min2(Len(valid_points), max_points))}

\* _generate_traditional_scan_path from the offset step on: every result it
\* can produce (one per random sample)
TraditionalPathsOver(off, step, max_points) ==
    IF off.early
    THEN {[raised |-> FALSE, path |-> off.path, region |-> off.scan_polygon,
           logs |-> off.logs, taken |-> off.taken]}
    ELSE LET loop   == AdaptiveLoop(off.scan_polygon, step, max_points, 0)
             nofb   == loop.valid_points = <<>>
             valid_points == IF nofb THEN <<Centroid(off.scan_polygon)>> ELSE loop.valid_points
             taken1 == off.taken \cup (IF nofb THEN {"no_valid_point"} ELSE {})
         IN  IF Len(valid_points) > max_points
             THEN IF max_points < 0
                  THEN {[raised |-> TRUE, path |-> <<>>, region |-> off.scan_polygon,
                         logs |-> off.logs, taken |-> taken1 \cup {"subsample"}]}
                  ELSE {[raised |-> FALSE, path |-> nearest_neighbor_path(smp),
                         region |-> off.scan_polygon,
                         logs |-> off.logs \cup {"traditional_config"},
                         taken |-> taken1 \cup {"subsample"}] :
                            smp \in Samples(valid_points, max_points)}
             ELSE {[raised |-> FALSE, path |-> nearest_neighbor_path(valid_points),
                    region |-> off.scan_polygon,
                    logs |-> off.logs \cup {"traditional_config"}, taken |-> taken1]}

_generate_traditional_scan_path(boundary_points, step, max_points, boundary_distance, raises) ==
    UNION {TraditionalPathsOver(off, step, max_points) :
              off \in {OffsetStep(boundary_points, boundary_distance, raises, FALSE)}}

\* optimize_scan_path whose grid mode cuts the path down to max_points
OptimizeScanPathLimitsGrid(grid_scan_mode, scan_direction, boundary_points, step, max_points, boundary_distance, raises) ==
    IF grid_scan_mode
    THEN LET r == _generate_grid_scan_path(boundary_points, step, boundary_distance, scan_direction, raises)
         IN  {[raised |-> FALSE,
               path |-> IF max_points >= 0 /\ Len(r.path) > max_points
                        THEN SubSeq(r.path, 1, max_points) ELSE r.path,
               region |-> r.region, logs |-> r.logs, taken |-> r.taken]}
    ELSE _generate_traditional_scan_path(boundary_points, step, max_points, boundary_distance, raises)

\* optimize_scan_path: dispatch on grid_scan_mode
optimize_scan_path(grid_scan_mode, scan_direction, boundary_points, step, max_points, boundary_distance, raises) ==
    IF grid_scan_mode
    THEN LET r == _generate_grid_scan_path(boundary_points, step, boundary_distance, scan_direction, raises)
         IN  {[raised |-> FALSE, path |-> r.path, region |-> r.region, logs |-> r.logs, taken |-> r.taken]}
    ELSE _generate_traditional_scan_path(boundary_points, step, max_points, boundary_distance, raises)

(***************************************************************************)
(* Inputs of a planning run                                                *)
(***************************************************************************)
Sides == (0..MaxSide) \cup {10}

Clearances == (0..MaxClearance) \cup {6}

Steps == 1..MaxStep

PointLimits == (-1)..MaxPoints

Directions == {"horizontal", "vertical", "both", "grid"}

\* a house of footprint w x h: floor face at z = 0, roof face and one wall
BoxMesh(w, h) ==
    [vertices |-> << <<0, 0, 0>>, <<w, 0, 0>>, <<w, h, 0>>, <<0, h, 0>>,
                     <<0, 0, 3>>, <<w, 0, 3>>, <<w, h, 3>>, <<0, h, 3>> >>,
     faces    |-> << <<0, 1, 2, 3>>, <<4, 5, 6, 7>>, <<0, 1, 5, 4>> >>]

\* a mesh whose only face lies far above the lowest vertex
RoofMesh(w, h) ==
    [vertices |-> << <<0, 0, 0>>, <<w, 0, 3>>, <<w, h, 3>>, <<0, h, 3>> >>,
     faces    |-> << <<1, 2, 3>> >>]

\* vertices only, no face line in the file
CloudMesh(w, h) ==
    [vertices |-> << <<0, 0, 0>>, <<w, 0, 0>>, <<w, h, 0>>, <<0, h, 0>> >>,
     faces    |-> <<>>]

EmptyMesh == [vertices |-> <<>>, faces |-> <<>>]

Meshes ==
    {EmptyMesh} \cup {BoxMesh(w, h) : w \in Sides, h \in Sides}
                \cup {RoofMesh(w, w) : w \in Sides}
                \cup {CloudMesh(w, w) : w \in Sides}

\* small arbitrary meshes for the floor-plan extractor alone
Lattice ==
    {<<x, y, 0>> : x \in 0..MaxCoord, y \in 0..MaxCoord} \cup {<<0, 0, 1>>, <<MaxCoord, MaxCoord, 1>>}

VertexLists == UNION {[1..n -> Lattice] : n \in 1..MaxVerts}

FaceLists(n) == {<<>>, <<[i \in 1..n |-> i - 1]>>, << <<0>> >>, << <<n - 1>> >>}

\* a floor of side w under a canopy that overhangs it by one unit
CanopyMesh(w) ==
    [vertices |-> << <<0, 0, 0>>, <<w, 0, 0>>, <<w, w, 0>>, <<0, w, 0>>,
                     <<0, 0, 3>>, <<w + 1, 0, 3>>, <<w + 1, w + 1, 3>>, <<0, w + 1, 3>> >>,
     faces    |-> << <<0, 1, 2, 3>>, <<4, 5, 6, 7>> >>]

FloorMeshes ==
    (Meshes \ {EmptyMesh})
    \cup {CanopyMesh(w) : w \in Sides}
    \cup {[vertices |-> vs, faces |-> fs] : vs \in VertexLists, fs \in UNION {FaceLists(n) : n \in 1..MaxVerts}}

\* the worker threads generate_scene_and_survey can start
Runs == 1..MaxRuns

\* tk.StringVar() starts as the empty string
NoFolder == ""

Folders == {"out_a", "out_b"}

\* candidate lists for the nearest-neighbour orderings alone
TourPoints == {<<x, 0, 1>> : x \in 0..MaxTourCoord} \cup {<<0, 3, 1>>, <<4, 3, 1>>}

TourLists == UNION {[1..n -> TourPoints] : n \in 0..MaxLen}

(***************************************************************************)
(* State of a planning run (generate_scene_and_survey.run_generation)      *)
(***************************************************************************)
VARIABLES
    pc,                \* position of the run
    vertices,          \* parsed 'v' lines: <<x, y, z>>
    faces,             \* parsed 'f' lines: 0-based vertex indices
    has_scipy,         \* HAS_SCIPY
    step,              \* self.step
    boundary_distance, \* self.boundary_distance
    grid_scan_mode,    \* self.grid_scan_mode
    scan_direction,    \* self.scan_direction
    max_points,        \* self.max_points
    boundary_points,   \* result of extract_floor_plan
    scan_polygon,      \* the active region the planner worked on
    scan_path,         \* result of optimize_scan_path
    survey_legs,       \* legs written to the survey file
    survey_file_path,  \* TRUE once self.survey_file_path is set
    log,               \* messages passed to self.log
    taken,             \* fallbacks taken so far
    tour_input,        \* candidate list handed to a nearest-neighbour ordering
    tour_output,       \* what the ordering returned
    threads,           \* the run_generation worker threads: position and locals
    output_folder,     \* self.output_folder (tk.StringVar)
    output_directory,  \* self.output_directory
    dir_writer,        \* the run that assigned output_directory last (0: the GUI thread)
    face_counts        \* what triangulate_all_faces returned last

vars == <<pc, vertices, faces, has_scipy, step, boundary_distance, grid_scan_mode,
          scan_direction, max_points, boundary_points, scan_polygon, scan_path,
          survey_legs, survey_file_path, log, taken, tour_input, tour_output,
          threads, output_folder, output_directory, dir_writer, face_counts>>

\* what is shared between worker threads and the GUI thread
session == <<threads, output_folder, output_directory, dir_writer>>

inputs == <<vertices, faces, has_scipy, step, boundary_distance, grid_scan_mode,
            scan_direction, max_points, face_counts>>

\* no worker thread started, no output folder chosen
NoSession ==
    /\ threads = [r \in Runs |-> [pc |-> "idle", output_folder |-> NoFolder, step |-> 0]]
    /\ output_folder = NoFolder
    /\ output_directory = NoFolder
    /\ dir_writer = 0
    /\ face_counts = <<0, 0>>

NoResults ==
    /\ boundary_points = <<>>
    /\ scan_polygon = EmptyPolygon
    /\ scan_path = <<>>
    /\ survey_legs = <<>>
    /\ survey_file_path = FALSE
    /\ log = {}
    /\ taken = {}
    /\ tour_input = <<>>
    /\ tour_output = <<>>
    /\ NoSession

\* a run about to parse its OBJ file, with the parameters read from the GUI.
\* max_points is read by the traditional planner only and scan_direction by
\* the grid planner only: each keeps its GUI default in the other mode.
Init ==
    /\ pc = "start"
    /\ \E m \in Meshes : vertices = m.vertices /\ faces = m.faces
    /\ has_scipy \in BOOLEAN
    /\ step \in Steps
    /\ boundary_distance \in Clearances
    /\ grid_scan_mode \in BOOLEAN
    /\ scan_direction \in Directions
    /\ max_points \in PointLimits \cup {DefaultMaxPoints}
    /\ grid_scan_mode => max_points = DefaultMaxPoints
    /\ ~grid_scan_mode => (scan_direction = "horizontal" /\ max_points \in PointLimits)
    /\ NoResults

\* except Exception as e: self.log(...); messagebox.showerror(...)
Fail(msgs) ==
    /\ pc' = "failed"
    /\ log' = log \cup msgs \cup {"generation_error"}

\* parse_obj_bbox: vertices.min(axis=0) raises on a file without vertices
ParseObjBbox ==
    /\ pc = "start"
    /\ IF vertices = <<>>
       THEN Fail({})
       ELSE pc' = "parsed" /\ log' = log \cup {"bounding_box"}
    /\ UNCHANGED <<session, inputs, boundary_points, scan_polygon, scan_path, survey_legs,
                   survey_file_path, taken, tour_input, tour_output>>

\* boundary_points = self.extract_floor_plan(vertices, faces)
ExtractStep ==
    /\ pc = "parsed"
    /\ LET r == ExtractFloorPlan(vertices, faces, has_scipy)
       IN  IF r.raised
           THEN Fail({}) /\ UNCHANGED <<boundary_points, taken>>
           ELSE /\ pc' = "extracted"
                /\ boundary_points' = r.boundary
                /\ taken' = taken \cup r.taken
                /\ log' = log \cup {"outline_size"}
    /\ UNCHANGED <<session, inputs, scan_polygon, scan_path, survey_legs, survey_file_path,
                   tour_input, tour_output>>

\* self.generate_scene_xml(...)
GenerateSceneXml ==
    /\ pc = "extracted"
    /\ pc' = "scene"
    /\ log' = log \cup {"scene_written"}
    /\ UNCHANGED <<session, inputs, boundary_points, scan_polygon, scan_path, survey_legs,
                   survey_file_path, taken, tour_input, tour_output>>

\* scan_path = self.optimize_scan_path(...); buffer() may raise, and the
\* traditional planner draws a random sample
OptimizeStep ==
    /\ pc = "scene"
    /\ \E raises \in BOOLEAN :
         /\ raises => boundary_distance > 0
         /\ \E r \in optimize_scan_path(grid_scan_mode, scan_direction, boundary_points,
                                        step, max_points, boundary_distance, raises) :
              /\ taken' = taken \cup r.taken
              /\ scan_polygon' = r.region
              /\ IF r.raised
                 THEN Fail(r.logs) /\ UNCHANGED scan_path
                 ELSE /\ pc' = "planned"
                      /\ scan_path' = r.path
                      /\ log' = log \cup r.logs
    /\ UNCHANGED <<session, inputs, boundary_points, survey_legs, survey_file_path,
                   tour_input, tour_output>>

\* self.generate_optimized_survey_xml(...): one leg per scan point
GenerateSurvey ==
    /\ pc = "planned"
    /\ pc' = "surveyed"
    /\ survey_legs' = scan_path
    /\ log' = log \cup {"survey_written"}
    /\ UNCHANGED <<session, inputs, boundary_points, scan_polygon, scan_path, survey_file_path,
                   taken, tour_input, tour_output>>

\* visualize_scan_path, the closing summary, self.survey_file_path = ...
Finish ==
    /\ pc = "surveyed"
    /\ pc' = "done"
    /\ survey_file_path' = TRUE
    /\ log' = log \cup {"path_plot", "summary"}
    /\ UNCHANGED <<session, inputs, boundary_points, scan_polygon, scan_path, survey_legs,
                   taken, tour_input, tour_output>>

Next ==
    \/ ParseObjBbox
    \/ ExtractStep
    \/ GenerateSceneXml
    \/ OptimizeStep
    \/ GenerateSurvey
    \/ Finish

Spec == Init /\ [][Next]_vars

(***************************************************************************)
(* extract_floor_plan on its own, over arbitrary small meshes              *)
(***************************************************************************)
InitFloor ==
    /\ pc = "parsed"
    /\ \E m \in FloorMeshes :
         /\ vertices = m.vertices
         /\ faces = m.faces
         /\ \A i \in 1..Len(m.faces) : \A j \in 1..Len(m.faces[i]) :
                ValidIndex(Len(m.vertices), m.faces[i][j])
    /\ has_scipy \in BOOLEAN
    /\ step = 1
    /\ boundary_distance = 0
    /\ grid_scan_mode = TRUE
    /\ scan_direction = "horizontal"
    /\ max_points = DefaultMaxPoints
    /\ boundary_points = <<>>
    /\ scan_polygon = EmptyPolygon
    /\ scan_path = <<>>
    /\ survey_legs = <<>>
    /\ survey_file_path = FALSE
    /\ log = {"bounding_box"}
    /\ taken = {}
    /\ tour_input = <<>>
    /\ tour_output = <<>>
    /\ NoSession

SpecFloor == InitFloor /\ [][ExtractStep]_vars

(***************************************************************************)
(* The two nearest-neighbour orderings on their own                        *)
(***************************************************************************)
InitTour ==
    /\ pc = "tour"
    /\ tour_input \in TourLists
    /\ tour_output = <<>>
    /\ vertices = <<>>
    /\ faces = <<>>
    /\ has_scipy = TRUE
    /\ step = 1
    /\ boundary_distance = 0
    /\ grid_scan_mode = TRUE
    /\ scan_direction = "grid"
    /\ max_points = DefaultMaxPoints
    /\ boundary_points = <<>>
    /\ scan_polygon = EmptyPolygon
    /\ scan_path = <<>>
    /\ survey_legs = <<>>
    /\ survey_file_path = FALSE
    /\ log = {}
    /\ taken = {}
    /\ NoSession

\* the ordering loop of _generate_grid_points applied to tour_input
OrderGrid ==
    /\ pc = "tour"
    /\ pc' = "tour_grid"
    /\ tour_output' = GridNearestNeighbor(tour_input)
    /\ UNCHANGED <<session, inputs, boundary_points, scan_polygon, scan_path, survey_legs,
                   survey_file_path, log, taken, tour_input>>

\* nearest_neighbor_path applied to tour_input
OrderTraditional ==
    /\ pc = "tour"
    /\ pc' = "tour_traditional"
    /\ tour_output' = nearest_neighbor_path(tour_input)
    /\ UNCHANGED <<session, inputs, boundary_points, scan_polygon, scan_path, survey_legs,
                   survey_file_path, log, taken, tour_input>>

NextTour == OrderGrid \/ OrderTraditional

SpecTour == InitTour /\ [][NextTour]_vars

(***************************************************************************)
(* Properties                                                              *)
(***************************************************************************)
Planned == pc \in {"planned", "surveyed", "done"}

Ordered == pc \in {"tour_grid", "tour_traditional"}

\* extent of the footprint ring handed to the planner
FootMinX == SetMin({boundary_points[i][1] : i \in 1..Len(boundary_points)})

FootMinY == SetMin({boundary_points[i][2] : i \in 1..Len(boundary_points)})

FootMaxX == SetMax({boundary_points[i][1] : i \in 1..Len(boundary_points)})

FootMaxY == SetMax({boundary_points[i][2] : i \in 1..Len(boundary_points)})

FootCentre == <<FootMinX + FootMaxX, FootMinY + FootMaxY, 2>>

Square10 == << <<0, 0>>, <<10, 0>>, <<10, 10>>, <<0, 10>>, <<0, 0>> >>

\* the clearance reaches half of the shorter side: the inward offset is empty
OffsetIsEmpty ==
    2 * boundary_distance >= FootMaxX - FootMinX \/ 2 * boundary_distance >= FootMaxY - FootMinY

\* C1: whatever the polygon, step, clearance, direction and maxPoints (0
\* included), the planner returns at least one scan point.
C1_PathNeverEmpty == Planned => Len(scan_path) >= 1

Occurrences(s, p) == Cardinality({i \in 1..Len(s) : s[i] = p})

\* C2: each nearest-neighbour ordering returns a permutation of its input
\* list: same length, every point as often as in the input.
C2_Permutation ==
    Ordered =>
        /\ Len(tour_output) = Len(tour_input)
        /\ \A p \in Range(tour_input) \cup Range(tour_output) :
               Occurrences(tour_output, p) = Occurrences(tour_input, p)

C2_Witness ==
    /\ pc = "tour_grid"
    /\ Len(tour_input) >= 3
    /\ Cardinality(Range(tour_input)) < Len(tour_input)
    /\ tour_output # tour_input

\* C3: when the inward offset by a clearance > 0 is empty, either planner
\* returns exactly one point, the centroid of the un-offset footprint; for the
\* square (0,0)-(10,10) and clearance 6 that point is (5,5).
C3_DegenerateOffsetGivesHouseCentroid ==
    (Planned /\ boundary_distance > 0 /\ "offset_exception" \notin taken /\ OffsetIsEmpty) =>
        /\ scan_path = <<FootCentre>>
        /\ (boundary_points = Square10 /\ boundary_distance = 6) =>
               (scan_path[1][1] = 5 * scan_path[1][3] /\ scan_path[1][2] = 5 * scan_path[1][3])

C3_Witness ==
    /\ pc = "planned"
    /\ ~grid_scan_mode
    /\ boundary_points = Square10
    /\ boundary_distance = 6
    /\ scan_path = << <<10, 10, 2>> >>

DegenerateSignalled ==
    /\ "degenerate_offset" \in taken
    /\ "clearance_too_large" \in log
    /\ scan_path = <<FootCentre>>

RegionIsShrunk ==
    /\ ~scan_polygon.empty
    /\ Len(scan_polygon.ring) = 4
    /\ scan_polygon.min_x = FootMinX + boundary_distance
    /\ scan_polygon.min_y = FootMinY + boundary_distance
    /\ scan_polygon.max_x = FootMaxX - boundary_distance
    /\ scan_polygon.max_y = FootMaxY - boundary_distance
    /\ (scan_polygon.max_x - scan_polygon.min_x) * (scan_polygon.max_y - scan_polygon.min_y) > 0

RegionIsFootprint ==
    /\ ~scan_polygon.empty
    /\ Len(scan_polygon.ring) = Len(boundary_points) - 1
    /\ \A i \in 1..Len(scan_polygon.ring) : scan_polygon.ring[i] = boundary_points[i]

\* C4 as claimed: for a clearance > 0 the planner either works on the
\* clearance-shrunk polygon of positive area or signals the degenerate case
\* and returns the centroid, also when the offset computation raises.
C4_Original ==
    (Planned /\ boundary_distance > 0) => (DegenerateSignalled \/ RegionIsShrunk)

\* C4 as amended: a third outcome exists.  When the offset computation
\* raises, the error is logged and planning continues on the un-offset
\* footprint.
C4_Amended ==
    (Planned /\ boundary_distance > 0) =>
        \/ DegenerateSignalled
        \/ RegionIsShrunk
        \/ ("offset_exception" \in taken /\ "offset_error" \in log /\ RegionIsFootprint)

C4_Witness ==
    /\ pc = "planned"
    /\ boundary_distance > 0
    /\ "offset_exception" \in taken
    /\ RegionIsFootprint
    /\ Len(scan_path) > 1

\* C5: with a zero clearance the active region is the footprint ring without
\* its closing point, vertex for vertex.
C5_ZeroClearanceKeepsFootprint ==
    (Planned /\ boundary_distance = 0) =>
        /\ RegionIsFootprint
        /\ boundary_points[Len(boundary_points)] = boundary_points[1]

C5_Witness ==
    /\ pc = "planned"
    /\ boundary_distance = 0
    /\ ~grid_scan_mode
    /\ FootMaxX > FootMinX
    /\ Len(scan_path) >= 2

\* the projected ground vertices extract_floor_plan works on
GroundXY ==
    LET gv     == GroundVertices(vertices, faces)
        ground == IF gv = <<>> THEN vertices ELSE gv
    IN  {<<ground[i][1], ground[i][2]>> : i \in 1..Len(ground)}

\* C6: with at least 3 non-collinear ground-level vertices (in plan view)
\* extract_floor_plan returns a ring whose first and last points are equal
\* and that has at least 3 distinct points.
C6_ClosedRing ==
    (pc # "parsed" /\ ~Collinear(GroundXY)) =>
        /\ pc = "extracted"
        /\ boundary_points[1] = boundary_points[Len(boundary_points)]
        /\ Cardinality(Range(boundary_points)) >= 3

C6_Witness ==
    /\ pc = "extracted"
    /\ has_scipy
    /\ ~Collinear(GroundXY)
    /\ "all_vertices" \notin taken
    /\ Len(boundary_points) = 4

\* C7: for every non-empty vertex set extract_floor_plan returns, and the
\* polygon it returns has at least 3 distinct points.
C7_AlwaysThreeDistinct ==
    pc # "parsed" => (pc = "extracted" /\ Cardinality(Range(boundary_points)) >= 3)

AllCoincide == vertices # <<>> /\ \A i \in 1..Len(vertices) : vertices[i] = vertices[1]

\* C8: a run on a mesh with no vertices, or whose vertices all coincide,
\* aborts without a scan path and without a survey; nothing else aborts a run.
C8_OnlyInputGeometryAborts ==
    /\ (vertices = <<>> \/ AllCoincide) =>
           (~Planned /\ scan_path = <<>> /\ survey_legs = <<>> /\ ~survey_file_path)
    /\ (pc = "failed" /\ max_points >= 0) => (vertices = <<>> \/ AllCoincide)

\* the log messages the source emits for a fallback
AdvisoryOf(fallback) ==
    CASE fallback = "degenerate_offset" -> {"clearance_too_large"}
      [] fallback = "offset_exception"  -> {"offset_error"}
      [] fallback = "empty_strategy"    -> {"no_valid_scan_point"}
      [] OTHER                          -> {}

\* C9: every fallback taken during a run has put an advisory into the log by
\* the time the run returns.
C9_EveryFallbackLogged ==
    pc = "done" => \A f \in taken : AdvisoryOf(f) \cap log # {}

RECURSIVE PathLength(_)
\* length of a path of integer points, in thousandths, each leg rounded down
PathLength(path) ==
    IF Len(path) <= 1 THEN 0
    ELSE ISqrt(1000000 * Dist2(path[1], path[2], 1)) + PathLength(Tail(path))

\* C10 as claimed: for every list of at least 2 points the greedy path is no
\* longer than the path through the points in their original order.
C10_Original ==
    (Ordered /\ Len(tour_input) >= 2) => PathLength(tour_output) <= PathLength(tour_input)

\* C10 as amended: this holds for lists of 2 or 3 points.
C10_Amended ==
    (Ordered /\ Len(tour_input) \in {2, 3}) => PathLength(tour_output) <= PathLength(tour_input)

C10_Witness ==
    /\ pc = "tour_traditional"
    /\ Len(tour_input) = 3
    /\ PathLength(tour_output) < PathLength(tour_input)

(***************************************************************************)
(* optimize_scan_path on its own, over rectilinear footprints              *)
(***************************************************************************)
\* a closed square ring of the given side
SquareRing(side) == << <<0, 0>>, <<side, 0>>, <<side, side>>, <<0, side>>, <<0, 0>> >>

\* two rooms, w1 x h1 below and w2 x h2 above, joined by a corridor cw wide
\* and ch long that starts cx from the left wall
TwoRooms(w1, h1, cx, cw, ch, w2, h2) ==
    << <<0, 0>>, <<w1, 0>>, <<w1, h1>>, <<cx + cw, h1>>, <<cx + cw, h1 + ch>>,
       <<w2, h1 + ch>>, <<w2, h1 + ch + h2>>, <<0, h1 + ch + h2>>, <<0, h1 + ch>>,
       <<cx, h1 + ch>>, <<cx, h1>>, <<0, h1>>, <<0, 0>> >>

\* two rooms whose corridor is one sub-sample (step / SubSampleDiv) wide when
\* the step is SubSampleDiv
NarrowNeck == TwoRooms(22, 20, 2, 1, 20, 22, 20)

BigSmall == TwoRooms(6, 6, 2, 1, 2, 4, 4)

SmallBig == TwoRooms(4, 4, 2, 1, 2, 6, 6)

Twins == TwoRooms(4, 4, 1, 1, 2, 4, 4)

\* a U-shaped hall around a courtyard, and a room in the courtyard that a
\* short corridor joins to the hall
Courtyard ==
    << <<0, 0>>, <<11, 0>>, <<11, 14>>, <<8, 14>>, <<8, 3>>, <<6, 3>>, <<6, 4>>, <<7, 4>>,
       <<7, 7>>, <<4, 7>>, <<4, 4>>, <<5, 4>>, <<5, 3>>, <<3, 3>>, <<3, 14>>, <<0, 14>>,
       <<0, 0>> >>

\* a hall much wider than deep
WideHall == << <<0, 0>>, <<22, 0>>, <<22, 4>>, <<0, 4>>, <<0, 0>> >>

\* a 40 x 40 hall with an L-shaped cut at its lower left corner: with a step of
\* SubSampleDiv the first scan line and the first scan column both start at
\* (10, 10)
CornerCut ==
    << <<15, 0>>, <<40, 0>>, <<40, 40>>, <<0, 40>>, <<0, 15>>, <<9, 15>>, <<9, 9>>, <<15, 9>>,
       <<15, 0>> >>

\* a 40 x 40 hall without its lower left quarter: with a step of SubSampleDiv
\* the grid node (10, 10) is outside and the other three are inside
Ell == << <<20, 0>>, <<40, 0>>, <<40, 40>>, <<0, 40>>, <<0, 20>>, <<20, 20>>, <<20, 0>> >>

PlanRings ==
    {Square10, SquareRing(12), NarrowNeck, BigSmall, SmallBig, Twins, Courtyard, WideHall, CornerCut,
     Ell}

\* a step of SubSampleDiv puts the sub-samples of a sweep on whole coordinates
PlanSteps == Steps \cup {SubSampleDiv}

PlanPointLimits == PointLimits \cup {5}

\* extent of a ring in steps, rounded up
SpanOf(ring, s) ==
    CeilDiv(Max2(SetMax({ring[i][1] : i \in 1..Len(ring)}) - SetMin({ring[i][1] : i \in 1..Len(ring)}),
                 SetMax({ring[i][2] : i \in 1..Len(ring)}) - SetMin({ring[i][2] : i \in 1..Len(ring)})),
            s)

\* optimize_scan_path about to be called on a footprint of at most MaxSpan
\* steps (MaxGridSpan steps where all grid nodes are to be ordered)
InitPlan ==
    /\ pc = "scene"
    /\ vertices = <<>>
    /\ faces = <<>>
    /\ has_scipy = TRUE
    /\ boundary_points \in PlanRings
    /\ step \in PlanSteps
    /\ SpanOf(boundary_points, step) <= MaxSpan
    /\ boundary_distance \in Clearances
    /\ grid_scan_mode \in BOOLEAN
    /\ scan_direction \in Directions
    /\ max_points \in PlanPointLimits \cup {DefaultMaxPoints}
    /\ grid_scan_mode => max_points = DefaultMaxPoints
    /\ ~grid_scan_mode => (scan_direction = "horizontal" /\ max_points \in PlanPointLimits)
    /\ (grid_scan_mode /\ scan_direction = "grid") => SpanOf(boundary_points, step) <= MaxGridSpan
    /\ scan_polygon = EmptyPolygon
    /\ scan_path = <<>>
    /\ survey_legs = <<>>
    /\ survey_file_path = FALSE
    /\ log = {}
    /\ taken = {}
    /\ tour_input = <<>>
    /\ tour_output = <<>>
    /\ NoSession

SpecPlan == InitPlan /\ [][OptimizeStep]_vars

(***************************************************************************)
(* Properties of the planner                                               *)
(***************************************************************************)
\* the points of a path on the line y = v, in path order
RowAt(path, v) ==
    LET idx == SortedSeq({k \in 1..Len(path) : path[k][2] = v * path[k][3]})
    IN  [n \in 1..Len(idx) |-> path[idx[n]]]

\* the points of a path on the line x = v, in path order
ColumnAt(path, v) ==
    LET idx == SortedSeq({k \in 1..Len(path) : path[k][1] = v * path[k][3]})
    IN  [n \in 1..Len(idx) |-> path[idx[n]]]

\* x grows along the row / falls along the row
Rightward(row) == \A k \in 1..(Len(row) - 1) : row[k][1] < row[k + 1][1]

Leftward(row) == \A k \in 1..(Len(row) - 1) : row[k][1] > row[k + 1][1]

\* consecutive points of the row are exactly s apart in x
SpacedBy(row, s) ==
    \A k \in 1..(Len(row) - 1) : Abs(row[k + 1][1] - row[k][1]) = s * row[k][3]

\* the 10 x 10 square swept horizontally with step 2 and clearance 1
C11_Scenario ==
    /\ pc = "planned"
    /\ grid_scan_mode
    /\ scan_direction = "horizontal"
    /\ boundary_points = Square10
    /\ step = 2
    /\ boundary_distance = 1
    /\ "offset_exception" \notin taken

C12_Scenario ==
    /\ pc = "planned"
    /\ ~grid_scan_mode
    /\ boundary_points = Square10
    /\ step = 1
    /\ boundary_distance = 0
    /\ max_points = 5

\* C12 as stated: in that scenario the planner returns exactly 5 points.
C12_Original == C12_Scenario => Len(scan_path) = 5

\* C12, amended: in that scenario the adaptive loop grows the step while the
\* attempt has more than 5 in-region points and stops at the first attempt
\* with at most 5; the planner returns the points of that attempt, each once,
\* which are 4 points and not 5.
C12_Amended ==
    C12_Scenario =>
        \E last \in 1..(MaxAttempts - 1) :
            /\ \A k \in 0..(last - 1) : Len(AttemptPoints(scan_polygon, step, k)) > 5
            /\ Len(AttemptPoints(scan_polygon, step, last)) <= 5
            /\ Range(scan_path) = Range(AttemptPoints(scan_polygon, step, last))
            /\ Len(scan_path) = Len(AttemptPoints(scan_polygon, step, last))
            /\ Len(scan_path) = 4
            /\ "subsample" \notin taken

C12_Witness ==
    /\ C12_Scenario
    /\ Len(scan_path) = 4
    /\ AdaptiveLoop(scan_polygon, step, max_points, 0).attempt = 7
    /\ Len(AttemptPoints(scan_polygon, step, 6)) = 9


\* the points of a path whose coordinate `axis` (1: x, 2: y) has the numerator
\* `level`, in path order
LineOf(path, axis, level) ==
    LET idx == SortedSeq({k \in 1..Len(path) : path[k][axis] = level})
    IN  [n \in 1..Len(idx) |-> path[idx[n]]]

\* the levels of the lines of a sweep, ascending: the order of the lines in
\* the output
LevelsOf(path, axis) == SortedSeq({path[k][axis] : k \in 1..Len(path)})

\* the line runs towards growing coordinates
Ascending(line, along) == line[1][along] < line[Len(line)][along]

\* the result of a horizontal or a vertical sweep
SweepDone ==
    /\ pc = "planned"
    /\ grid_scan_mode
    /\ scan_direction \in {"horizontal", "vertical"}
    /\ taken \cap {"empty_strategy", "degenerate_offset"} = {}

\* C13: in the output of a horizontal (vertical) sweep any two lines that are
\* adjacent in the output and have at least 2 points each are traversed in
\* opposite directions.
C13_AdjacentLinesOpposed ==
    SweepDone =>
        LET axis   == IF scan_direction = "horizontal" THEN 2 ELSE 1
            levels == LevelsOf(scan_path, axis)
        IN  \A n \in 1..(Len(levels) - 1) :
                LET a == LineOf(scan_path, axis, levels[n])
                    b == LineOf(scan_path, axis, levels[n + 1])
                IN  (Len(a) >= 2 /\ Len(b) >= 2) => Ascending(a, 3 - axis) # Ascending(b, 3 - axis)


\* every one of the ten sampling attempts has more than max_points in-region
\* points: the adaptive loop runs out with too many points
LoopRunsOut ==
    /\ ~scan_polygon.empty
    /\ \A k \in 0..(MaxAttempts - 1) : Len(AttemptPoints(scan_polygon, step, k)) > max_points

\* C14: in traditional mode with max_points >= 1 the returned path has at most
\* max_points points; when the tenth attempt still has more than max_points
\* in-region points the path has exactly max_points points, all distinct and
\* all among the in-region points of that attempt.
C14_AtMostMaxPoints ==
    (pc = "planned" /\ ~grid_scan_mode /\ max_points >= 1) =>
        /\ Len(scan_path) <= max_points
        /\ LoopRunsOut =>
               /\ Len(scan_path) = max_points
               /\ \A i, j \in 1..Len(scan_path) : i # j => scan_path[i] # scan_path[j]
               /\ Range(scan_path) \subseteq Range(AttemptPoints(scan_polygon, step, MaxAttempts - 1))

C14_Witness ==
    /\ pc = "planned"
    /\ ~grid_scan_mode
    /\ max_points = 2
    /\ LoopRunsOut
    /\ Len(AttemptPoints(scan_polygon, step, MaxAttempts - 1)) = 4
    /\ "subsample" \in taken
    /\ Len(scan_path) = 2


\* what optimize_scan_path can return when it is run again on the inputs of
\* this run (the offset raising or not as it did)
Reruns ==
    {r \in optimize_scan_path(grid_scan_mode, scan_direction, boundary_points, step,
                              max_points, boundary_distance, "offset_exception" \in taken) :
         ~r.raised}

\* the subsampling step was not reached
NotSubsampled == pc = "planned" /\ (grid_scan_mode \/ "subsample" \notin taken)

SamePathAgain == NotSubsampled => \A r \in Reruns : r.path = scan_path

planning == <<pc, inputs, boundary_points, scan_polygon, scan_path, survey_legs, log, taken,
              tour_input, tour_output>>

\* run r is between its first and its last statement
InProgress(r) == threads[r].pc \notin {"idle", "done"}

\* browse_output_folder; an empty folder is a cancelled dialog
BrowseOutputFolder ==
    /\ \E folder \in Folders \cup {NoFolder} :
         IF folder # NoFolder
         THEN /\ output_folder' = folder
              /\ output_directory' = folder
              /\ dir_writer' = 0
         ELSE UNCHANGED <<output_folder, output_directory, dir_writer>>
    /\ UNCHANGED <<threads, planning, survey_file_path>>

\* thread = threading.Thread(target=run_generation); thread.start(): nothing
\* keeps a second click from starting a second thread
GenerateSceneAndSurvey(r) ==
    /\ ~InProgress(r)
    /\ threads' = [threads EXCEPT ![r] = [pc |-> "started", output_folder |-> NoFolder, step |-> 0]]
    /\ UNCHANGED <<output_folder, output_directory, dir_writer, planning, survey_file_path>>

\* obj_path = self.obj_path.get(); output_folder = self.output_folder.get()
\* and the two checks that end the run
ReadFolders(r) ==
    /\ threads[r].pc = "started"
    /\ \E obj_exists \in BOOLEAN :
         threads' = [threads EXCEPT ![r] =
                        IF ~obj_exists \/ output_folder = NoFolder
                        THEN [@ EXCEPT !.pc = "done"]
                        ELSE [@ EXCEPT !.pc = "checked", !.output_folder = output_folder]]
    /\ UNCHANGED <<output_folder, output_directory, dir_writer, planning, survey_file_path>>

\* os.makedirs(output_folder, exist_ok=True); self.output_directory = output_folder
SetOutputDirectory(r) ==
    /\ threads[r].pc = "checked"
    /\ output_directory' = threads[r].output_folder
    /\ dir_writer' = r
    /\ threads' = [threads EXCEPT ![r].pc = "dir_set"]
    /\ UNCHANGED <<output_folder, planning, survey_file_path>>

\* step = self.step.get() ... boundary_distance = self.boundary_distance.get()
ReadParams(r) ==
    /\ threads[r].pc = "dir_set"
    /\ threads' = [threads EXCEPT ![r].pc = "params", ![r].step = step]
    /\ UNCHANGED <<output_folder, output_directory, dir_writer, planning, survey_file_path>>

\* parse, extract, plan and write the scene and survey files into the run's
\* own output_folder; an exception ends the run in the except branch
Generate(r) ==
    /\ threads[r].pc = "params"
    /\ \E ok \in BOOLEAN :
         threads' = [threads EXCEPT ![r].pc = IF ok THEN "generated" ELSE "done"]
    /\ UNCHANGED <<output_folder, output_directory, dir_writer, planning, survey_file_path>>

\* self.survey_file_path = survey_xml_path, the last statement of the run
SaveSurveyPath(r) ==
    /\ threads[r].pc = "generated"
    /\ survey_file_path' = TRUE
    /\ threads' = [threads EXCEPT ![r].pc = "done"]
    /\ UNCHANGED <<output_folder, output_directory, dir_writer, planning>>

InitThreads ==
    /\ pc = "start"
    /\ vertices = <<>>
    /\ faces = <<>>
    /\ has_scipy = TRUE
    /\ step \in Steps
    /\ boundary_distance = 0
    /\ grid_scan_mode = TRUE
    /\ scan_direction = "horizontal"
    /\ max_points = DefaultMaxPoints
    /\ NoResults

NextThreads ==
    \/ BrowseOutputFolder
    \/ \E r \in Runs : GenerateSceneAndSurvey(r)
    \/ \E r \in Runs : ReadFolders(r)
    \/ \E r \in Runs : SetOutputDirectory(r)
    \/ \E r \in Runs : ReadParams(r)
    \/ \E r \in Runs : Generate(r)
    \/ \E r \in Runs : SaveSurveyPath(r)

SpecThreads == InitThreads /\ [][NextThreads]_vars

\* C16: while a run is in progress after assigning output_directory, no
\* other run has assigned the field over it.
C16_NoOverwriteByOtherRun ==
    \A r \in Runs :
        threads[r].pc \in {"dir_set", "params", "generated"} => dir_writer \in {0, r}


\* the list s without the first occurrence of p
RECURSIVE WithoutFirst(_, _)
WithoutFirst(s, p) ==
    IF s = <<>> THEN <<>>
    ELSE IF Head(s) = p THEN Tail(s) ELSE <<Head(s)>> \o WithoutFirst(Tail(s), p)

\* the candidates not yet output once the first k points of `out` are: the
\* input list, in its order, without them
RECURSIVE RemainingAfter(_, _, _)
RemainingAfter(input, out, k) ==
    IF k = 0 THEN input ELSE WithoutFirst(RemainingAfter(input, out, k - 1), out[k])

\* squared Euclidean distance of two points with denominator 1
SquaredDistance(p, q) == (p[1] - q[1]) * (p[1] - q[1]) + (p[2] - q[2]) * (p[2] - q[2])

\* C17: the first output point of either ordering is the first candidate of
\* the input; every later output point is, among the candidates not yet
\* output, at minimum Euclidean distance from the point output before it, and
\* the earliest such candidate of the remaining list.
C17_GreedyNearestFirstTie ==
    (Ordered /\ tour_input # <<>>) =>
        /\ Len(tour_output) = Len(tour_input)
        /\ tour_output[1] = tour_input[1]
        /\ \A k \in 1..(Len(tour_output) - 1) :
               LET rem == RemainingAfter(tour_input, tour_output, k)
                   cur == tour_output[k]
               IN  \E i \in 1..Len(rem) :
                       /\ rem[i] = tour_output[k + 1]
                       /\ \A j \in 1..Len(rem) :
                              SquaredDistance(cur, rem[i]) <= SquaredDistance(cur, rem[j])
                       /\ \A j \in 1..(i - 1) :
                              SquaredDistance(cur, rem[j]) > SquaredDistance(cur, rem[i])

\* from (2,0) the candidates (3,0) and (1,0) are equally near; (3,0) stands
\* first in the list and is visited first
C17_Witness ==
    /\ pc = "tour_traditional"
    /\ tour_input = << <<2, 0, 1>>, <<3, 0, 1>>, <<1, 0, 1>>, <<6, 0, 1>> >>
    /\ tour_output = << <<2, 0, 1>>, <<3, 0, 1>>, <<1, 0, 1>>, <<6, 0, 1>> >>


\* the result of a horizontal sweep
HorizontalDone == SweepDone /\ scan_direction = "horizontal"

\* the index of the scan line at level y (a numerator over SubSampleDiv) is
\* whole: the lines are min_y + step/2 + i * step
OnScanLine(y) ==
    /\ y >= SubSampleDiv * scan_polygon.min_y + (SubSampleDiv \div 2) * step
    /\ (y - SubSampleDiv * scan_polygon.min_y - (SubSampleDiv \div 2) * step) % (SubSampleDiv * step) = 0

LineIndex(y) ==
    (y - SubSampleDiv * scan_polygon.min_y - (SubSampleDiv \div 2) * step) \div (SubSampleDiv * step)

\* lines in increasing index order, even-indexed lines in strictly increasing
\* x, odd-indexed lines in strictly decreasing x
SerpentineByIndex ==
    LET levels == LevelsOf(scan_path, 2)
    IN  /\ scan_path = Flatten([n \in 1..Len(levels) |-> LineOf(scan_path, 2, levels[n])])
        /\ \A n \in 1..Len(levels) :
               /\ OnScanLine(levels[n])
               /\ IF LineIndex(levels[n]) % 2 = 0
                  THEN Rightward(LineOf(scan_path, 2, levels[n]))
                  ELSE Leftward(LineOf(scan_path, 2, levels[n]))

\* the in-region sub-samples of the line at level y have no sub-sample
\* outside the region between them: the line meets the region in one interval
SingleSpan(y) ==
    LET tests  == ARange(SubSampleDiv * scan_polygon.min_x,
                         SubSampleDiv * scan_polygon.max_x + step, step)
        inside == {x \in Range(tests) : Contains(scan_polygon, <<x, y, SubSampleDiv>>)}
    IN  inside # {} => Cardinality(inside) = (SetMax(inside) - SetMin(inside)) \div step + 1

\* consecutive points of the line are a positive whole multiple of s apart
SpacedByMultiple(row, s) ==
    \A k \in 1..(Len(row) - 1) :
        /\ row[k + 1][1] # row[k][1]
        /\ Abs(row[k + 1][1] - row[k][1]) % (s * row[k][3]) = 0

\* C18 as stated: serpentine by line index, and consecutive points of every
\* line exactly step apart in x.
C18_Original ==
    HorizontalDone =>
        /\ SerpentineByIndex
        /\ \A y \in Range(LevelsOf(scan_path, 2)) : SpacedBy(LineOf(scan_path, 2, y), step)

\* C18, amended: in the horizontal sweep the lines appear in increasing index
\* order, even-indexed lines in strictly increasing x and odd-indexed lines in
\* strictly decreasing x; consecutive points of a line are a whole multiple of
\* step apart in x, and exactly step apart when the line meets the active
\* region in a single interval.
C18_Amended ==
    HorizontalDone =>
        /\ SerpentineByIndex
        /\ \A y \in Range(LevelsOf(scan_path, 2)) :
               /\ SpacedByMultiple(LineOf(scan_path, 2, y), step)
               /\ SingleSpan(y) => SpacedBy(LineOf(scan_path, 2, y), step)

\* a line of the courtyard footprint that crosses both arms of the hall: its
\* points jump over the courtyard; and an odd-indexed line of three points
C18_Witness ==
    /\ HorizontalDone
    /\ boundary_points = Courtyard
    /\ \E y \in Range(LevelsOf(scan_path, 2)) :
           /\ ~SingleSpan(y)
           /\ ~SpacedBy(LineOf(scan_path, 2, y), step)
           /\ Len(LineOf(scan_path, 2, y)) >= 3
    /\ \E y \in Range(LevelsOf(scan_path, 2)) :
           /\ LineIndex(y) % 2 = 1
           /\ SingleSpan(y)
           /\ Len(LineOf(scan_path, 2, y)) >= 3


\* house_polygon.buffer(-boundary_distance) of the run
InnerPolygon == Buffer(Polygon(DropLast(boundary_points)), boundary_distance)

\* the offset was computed and fell into several pieces
SeveralPieces ==
    /\ pc = "planned"
    /\ boundary_distance > 0
    /\ "offset_exception" \notin taken
    /\ "geoms" \in DOMAIN InnerPolygon

\* the active region is the first piece of the largest area
LargestPieceActive ==
    LET geoms == InnerPolygon.geoms
    IN  \E i \in 1..Len(geoms) :
            /\ scan_polygon = geoms[i]
            /\ \A j \in 1..Len(geoms) : Area(geoms[j]) <= Area(geoms[i])
            /\ \A j \in 1..(i - 1) : Area(geoms[j]) < Area(geoms[i])

\* every scan point lies in the active region and in no other piece
NoPointInOtherPiece ==
    \A k \in 1..Len(scan_path) :
        /\ Contains(scan_polygon, scan_path[k])
        /\ \A j \in 1..Len(InnerPolygon.geoms) :
               InnerPolygon.geoms[j] # scan_polygon => ~Contains(InnerPolygon.geoms[j], scan_path[k])

\* the path is the single centroid point of a strategy that found no point
CentroidFallback == taken \cap {"empty_strategy", "no_valid_point"} # {}

GridPlanned == pc = "planned" /\ grid_scan_mode /\ "degenerate_offset" \notin taken

\* the strategy of the chosen direction finds no point in the active region;
\* for 'both': neither pass finds one
StrategyEmpty ==
    LET b == Bounds(scan_polygon)
        h == _generate_horizontal_scan(scan_polygon, b.min_x, b.max_x, b.min_y, b.max_y, step)
        v == _generate_vertical_scan(scan_polygon, b.min_x, b.max_x, b.min_y, b.max_y, step)
    IN  CASE scan_direction = "horizontal" -> h = <<>>
          [] scan_direction = "vertical"   -> v = <<>>
          [] scan_direction = "both"       -> h = <<>> /\ v = <<>>
          [] scan_direction = "grid"       ->
                 GridCandidates(scan_polygon, b.min_x, b.max_x, b.min_y, b.max_y, step) = <<>>

\* two points given as fractions are the same point
SamePoint(p, q) == p[1] * q[3] = q[1] * p[3] /\ p[2] * q[3] = q[2] * p[3]

\* C20: in grid mode, in each direction, a strategy that yields no point makes
\* the planner return exactly one point, the centroid of the active region
\* (which, with a clearance, is the offset region and not the footprint); a
\* strategy that yields points is returned as it is, so for 'both' the
\* fallback is taken only when both passes are empty.
C20_CentroidOfActiveRegion ==
    GridPlanned =>
        /\ (boundary_distance > 0 /\ "offset_exception" \notin taken) =>
               scan_polygon = SelectPiece(InnerPolygon)
        /\ StrategyEmpty =>
               /\ "empty_strategy" \in taken
               /\ Len(scan_path) = 1
               /\ SamePoint(scan_path[1], Centroid(scan_polygon))
        /\ ~StrategyEmpty =>
               /\ "empty_strategy" \notin taken
               /\ scan_path # <<>>
               /\ \A k \in 1..Len(scan_path) : Contains(scan_polygon, scan_path[k])

\* both passes empty over an offset region whose centroid is not the
\* footprint's
C20_Witness ==
    /\ GridPlanned
    /\ scan_direction = "both"
    /\ boundary_distance > 0
    /\ StrategyEmpty
    /\ Len(scan_path) = 1
    /\ SamePoint(scan_path[1], Centroid(scan_polygon))
    /\ ~SamePoint(scan_path[1], Centroid(Polygon(DropLast(boundary_points))))


\* the traditional planner got past the offset step and returned
TraditionalPlanned == pc = "planned" /\ ~grid_scan_mode /\ "degenerate_offset" \notin taken

\* the sampling attempts the adaptive loop performed: 0 .. the one it ended on
AttemptsPerformed == 0..AdaptiveLoop(scan_polygon, step, max_points, 0).attempt

\* C21: in traditional mode the centroid fallback is taken exactly when no
\* sampling attempt that was performed found an in-region point; otherwise
\* the path consists of in-region points.
C21_FallbackOnlyIfNeverFound ==
    TraditionalPlanned =>
        /\ ("no_valid_point" \in taken) <=>
               (\A k \in AttemptsPerformed : AttemptPoints(scan_polygon, step, k) = <<>>)
        /\ ("no_valid_point" \notin taken) =>
               \A k \in 1..Len(scan_path) : Contains(scan_polygon, scan_path[k])


\* the coordinates min + s/2 + i * s below max - s/2 for the spacing
\* s = step * 1.2^k, as numerators over 2 * 5^k
SpacedCoordinates(min, max, k) ==
    LET den  == 2 * Pow(5, k)
        half == step * Pow(6, k)
        room == (max - min) * den - 2 * half
    IN  IF room <= 0 THEN {}
        ELSE {min * den + half + i * 2 * half : i \in 0..((room - 1) \div (2 * half))}

\* the in-region nodes of the grid of spacing step * 1.2^k over the extent of
\* the active region
NodesAt(k) ==
    {p \in {<<x, y, 2 * Pow(5, k)>> :
               x \in SpacedCoordinates(scan_polygon.min_x, scan_polygon.max_x, k),
               y \in SpacedCoordinates(scan_polygon.min_y, scan_polygon.max_y, k)} :
        Contains(scan_polygon, p)}

\* the loop ends on attempt `last`: every earlier attempt has more than
\* max_points nodes, and this one has at most max_points or is the tenth
EndsOn(last) ==
    /\ \A k \in 0..(last - 1) : Cardinality(NodesAt(k)) > max_points
    /\ Cardinality(NodesAt(last)) <= max_points \/ last = 9

\* C22: the adaptive loop samples at most 10 times, attempt k at spacing
\* step * 1.2^k; it stops at the first attempt with at most max_points
\* in-region nodes, and what is subsampled and ordered are the nodes of the
\* last attempt performed.
C22_LoopHandsOnLastAttempt ==
    TraditionalPlanned =>
        \E last \in 0..9 :
            /\ EndsOn(last)
            /\ NodesAt(last) # {} =>
                   /\ Range(scan_path) \subseteq NodesAt(last)
                   /\ Len(scan_path) = Min2(Cardinality(NodesAt(last)), max_points)
                   /\ Cardinality(Range(scan_path)) = Len(scan_path)
            /\ NodesAt(last) = {} => "no_valid_point" \in taken

\* the loop grows the step three times and stops on the fourth attempt
C22_Witness ==
    /\ TraditionalPlanned
    /\ EndsOn(3)
    /\ Cardinality(NodesAt(2)) > max_points
    /\ NodesAt(3) # {}
    /\ Range(scan_path) = NodesAt(3)
    /\ Len(scan_path) >= 2


\* the horizontal and the vertical sweep of the active region of the run
HorizontalSweep ==
    _generate_horizontal_scan(scan_polygon, scan_polygon.min_x, scan_polygon.max_x,
                              scan_polygon.min_y, scan_polygon.max_y, step)

VerticalSweep ==
    _generate_vertical_scan(scan_polygon, scan_polygon.min_x, scan_polygon.max_x,
                            scan_polygon.min_y, scan_polygon.max_y, step)

\* a run in direction 'both' that found a point
BothDone ==
    /\ GridPlanned
    /\ scan_direction = "both"
    /\ "empty_strategy" \notin taken

\* C23: for direction 'both' the path is the whole horizontal sweep followed
\* by the whole vertical sweep of the same active region: its length is the
\* sum of the two, its first part is the horizontal sweep and the rest the
\* vertical sweep; a point both sweeps produce is listed twice.
C23_BothIsConcatenation ==
    BothDone =>
        /\ Len(scan_path) = Len(HorizontalSweep) + Len(VerticalSweep)
        /\ SubSeq(scan_path, 1, Len(HorizontalSweep)) = HorizontalSweep
        /\ SubSeq(scan_path, Len(HorizontalSweep) + 1, Len(scan_path)) = VerticalSweep

\* both sweeps have points, and the point (10, 10) comes from both
C23_Witness ==
    /\ BothDone
    /\ Len(HorizontalSweep) >= 2
    /\ Len(VerticalSweep) >= 2
    /\ \E i \in 1..Len(HorizontalSweep) :
           \E j \in (Len(HorizontalSweep) + 1)..Len(scan_path) :
               /\ scan_path[i] = scan_path[j]
               /\ scan_path[i] = <<10 * SubSampleDiv, 10 * SubSampleDiv, SubSampleDiv>>


\* the grid nodes (min_x + step/2 + i*step, min_y + step/2 + j*step) below
\* max_x and max_y that lie inside the active region
GridNodes ==
    {p \in {<<SubSampleDiv * scan_polygon.min_x + (SubSampleDiv \div 2) * step + i * SubSampleDiv * step,
              SubSampleDiv * scan_polygon.min_y + (SubSampleDiv \div 2) * step + j * SubSampleDiv * step,
              SubSampleDiv>> : i \in 0..MaxGridSpan, j \in 0..MaxGridSpan} :
        /\ p[1] < SubSampleDiv * scan_polygon.max_x
        /\ p[2] < SubSampleDiv * scan_polygon.max_y
        /\ Contains(scan_polygon, p)}

\* p comes before q when the nodes are generated with x in the outer loop
ColumnMajorBefore(p, q) == p[1] < q[1] \/ (p[1] = q[1] /\ p[2] <= q[2])

GridDone ==
    /\ GridPlanned
    /\ scan_direction = "grid"

\* C24: for direction 'grid' the returned points are exactly the grid nodes
\* inside the active region, each once, and the path starts at the first of
\* them in column-major generation order; when no node is inside, the strategy
\* returns nothing and the run falls back.
C24_GridVisitsEveryNodeOnce ==
    GridDone =>
        IF "empty_strategy" \in taken THEN GridNodes = {}
        ELSE /\ Range(scan_path) = GridNodes
             /\ Len(scan_path) = Cardinality(GridNodes)
             /\ \A q \in GridNodes : ColumnMajorBefore(scan_path[1], q)

\* a region with a node missing from the first row: the first node of the
\* first column is not the first node of the first row
C24_Witness ==
    /\ GridDone
    /\ "empty_strategy" \notin taken
    /\ Len(scan_path) >= 3
    /\ \E q \in GridNodes : q[2] < scan_path[1][2]


\* the region with x and y exchanged
Transposed(poly) ==
    [empty |-> poly.empty,
     ring  |-> [k \in 1..Len(poly.ring) |-> <<poly.ring[k][2], poly.ring[k][1]>>],
     gaps  |-> {<<g[2], g[1], g[4], g[3]>> : g \in poly.gaps},
     min_x |-> poly.min_y, min_y |-> poly.min_x,
     max_x |-> poly.max_y, max_y |-> poly.max_x]

\* the points of a path with their coordinates exchanged, in the same order
Swapped(path) == [k \in 1..Len(path) |-> <<path[k][2], path[k][1], path[k][3]>>]

\* the horizontal sweep of the transposed active region
MirrorSweep ==
    _generate_horizontal_scan(Transposed(scan_polygon), scan_polygon.min_y, scan_polygon.max_y,
                              scan_polygon.min_x, scan_polygon.max_x, step)

\* C25: the vertical sweep of a region is the horizontal sweep of the region
\* with x and y exchanged, with the coordinates of the result exchanged back,
\* point for point in the same order.
C25_VerticalMirrorsHorizontal ==
    GridPlanned => VerticalSweep = Swapped(MirrorSweep)

\* a vertical run over a region that is not its own mirror image, with two
\* columns of two points or more, the second walked downwards
C25_Witness ==
    /\ GridPlanned
    /\ scan_direction = "vertical"
    /\ "empty_strategy" \notin taken
    /\ scan_path = VerticalSweep
    /\ VerticalSweep # Swapped(HorizontalSweep)
    /\ scan_polygon.gaps # {}
    /\ \E k \in 2..(Len(scan_path) - 2) :
           /\ scan_path[k - 1][1] = scan_path[k][1] /\ scan_path[k - 1][2] < scan_path[k][2]
           /\ scan_path[k + 1][1] > scan_path[k][1]
           /\ scan_path[k + 2][1] = scan_path[k + 1][1] /\ scan_path[k + 2][2] < scan_path[k + 1][2]


\* the height of vertex idx of the mesh of the run
HeightOf(idx) == PyIndex(vertices, idx)[3]

\* the faces whose mean vertex height is less than 1/HeightThresholdDen away
\* from the 5th percentile of all heights (heights as numerators over 100)
QualifyingFaces ==
    LET gh100 == Percentile5([i \in 1..Len(vertices) |-> vertices[i][3]])
    IN  {f \in 1..Len(faces) :
            LET total == SumSeq([j \in 1..Len(faces[f]) |-> HeightOf(faces[f][j])])
                off   == 100 * total - Len(faces[f]) * gh100
            IN  /\ HeightThresholdDen * off < 100 * Len(faces[f])
                /\ HeightThresholdDen * off > -100 * Len(faces[f])}

\* the (x, y) of the vertices of the qualifying faces, or of all vertices
\* when no face qualifies
ExpectedGroundXY ==
    IF QualifyingFaces = {}
    THEN {<<vertices[i][1], vertices[i][2]>> : i \in 1..Len(vertices)}
    ELSE UNION {{<<PyIndex(vertices, faces[f][j])[1], PyIndex(vertices, faces[f][j])[2]>> :
                    j \in 1..Len(faces[f])} : f \in QualifyingFaces}

\* the ring extract_floor_plan makes of a set of projected points
RingOf(S) ==
    IF has_scipy /\ ~Collinear(S)
    THEN Append(HullVertices(S), HullVertices(S)[1])
    ELSE LET xs == {p[1] : p \in S}
             ys == {p[2] : p \in S}
         IN  << <<SetMin(xs), SetMin(ys)>>, <<SetMax(xs), SetMin(ys)>>, <<SetMax(xs), SetMax(ys)>>,
                <<SetMin(xs), SetMax(ys)>>, <<SetMin(xs), SetMin(ys)>> >>

Extracted == pc = "extracted"

\* C26: the ground vertices are the vertices of the faces whose mean height
\* is less than the tolerance away from the ground height, and all vertices
\* when no face qualifies or there is no face: the outline is built from
\* exactly these, and the all-vertices fallback is taken exactly when no face
\* qualifies.
C26_GroundVerticesFromQualifyingFaces ==
    Extracted =>
        /\ ("all_vertices" \in taken) <=> (QualifyingFaces = {})
        /\ boundary_points = RingOf(ExpectedGroundXY)

\* a mesh with a qualifying and a non-qualifying face, whose outline is built
\* from fewer points than the mesh has vertices
C26_Witness ==
    /\ Extracted
    /\ QualifyingFaces # {}
    /\ QualifyingFaces # 1..Len(faces)
    /\ Len(vertices) > Cardinality(ExpectedGroundXY)
    /\ boundary_points # RingOf({<<vertices[i][1], vertices[i][2]>> : i \in 1..Len(vertices)})


\* the paths optimize_scan_path can return for the footprint, step and
\* clearance of this run under the given mode, direction and point limit
PathsUnder(mode, direction, limit) ==
    {r.path : r \in {q \in optimize_scan_path(mode, direction, boundary_points, step, limit,
                                               boundary_distance, "offset_exception" \in taken) :
                        ~q.raised}}

\* C27: the result depends only on the options of the selected mode: in
\* traditional mode every direction gives the same possible paths (the same
\* path, up to the random subsample), in grid mode every max_points gives the
\* path of this run.
C27_IgnoresOptionsOfOtherMode ==
    pc = "planned" =>
        IF grid_scan_mode
        THEN \A limit \in PlanPointLimits : PathsUnder(TRUE, scan_direction, limit) = {scan_path}
        ELSE \A direction \in Directions :
                 PathsUnder(FALSE, direction, max_points) = PathsUnder(FALSE, scan_direction, max_points)

\* a grid run with more points than any of the limits tried
C27_Witness ==
    /\ pc = "planned"
    /\ grid_scan_mode
    /\ \A limit \in PlanPointLimits : Len(scan_path) > limit
    /\ PathsUnder(TRUE, scan_direction, 0) = {scan_path}


(***************************************************************************)
(* parse_obj_bbox on the 'f' lines of a file                               *)
(***************************************************************************)
\* the fields after 'f' on a face line: the leading part of a field is an
\* integer (1-based in a well-formed file), or text int() rejects
FaceTokens ==
    {[numeric |-> TRUE, value |-> k] : k \in (-MaxVerts)..(MaxVerts + 2)}
    \cup {[numeric |-> FALSE, value |-> 0]}

FaceLines == UNION {[1..n -> FaceTokens] : n \in 0..MaxTokens}

\* face_vertices of one line: int(part.split('/')[0]) - 1 for every field
\* int() accepts, the others skipped
RECURSIVE FaceVertices(_)
FaceVertices(parts) ==
    IF parts = <<>> THEN <<>>
    ELSE (IF Head(parts).numeric THEN <<Head(parts).value - 1>> ELSE <<>>)
         \o FaceVertices(Tail(parts))

\* faces: the non-empty face_vertices of the 'f' lines, in file order
RECURSIVE ParseFaces(_)
ParseFaces(lines) ==
    IF lines = <<>> THEN <<>>
    ELSE (IF FaceVertices(Head(lines)) # <<>> THEN <<FaceVertices(Head(lines))>> ELSE <<>>)
         \o ParseFaces(Tail(lines))

\* a file of four 'v' lines and one or two 'f' lines about to be parsed;
\* `faces` holds the 'f' lines until they are parsed
InitParse ==
    /\ pc = "file"
    /\ vertices = CloudMesh(1, 1).vertices
    /\ \E line \in FaceLines : faces \in {<<line>>, << <<[numeric |-> TRUE, value |-> 1]>>, line >>}
    /\ has_scipy = TRUE
    /\ step = 1
    /\ boundary_distance = 0
    /\ grid_scan_mode = TRUE
    /\ scan_direction = "horizontal"
    /\ max_points = DefaultMaxPoints
    /\ NoResults

\* the 'f' branch of parse_obj_bbox
ParseObjFaces ==
    /\ pc = "file"
    /\ pc' = "parsed"
    /\ faces' = ParseFaces(faces)
    /\ log' = log \cup {"bounding_box"}
    /\ UNCHANGED <<session, vertices, has_scipy, step, boundary_distance, grid_scan_mode,
                   scan_direction, max_points, face_counts, boundary_points, scan_polygon, scan_path,
                   survey_legs, survey_file_path, taken, tour_input, tour_output>>

NextParse == ParseObjFaces \/ ExtractStep

SpecParse == InitParse /\ [][NextParse]_vars

\* C28: every face returned by parse_obj_bbox has at least 3 vertex indices,
\* each in the range 0 .. (number of vertices - 1), so that extract_floor_plan
\* reads exactly the vertices the face lines named and does not raise.
C28_FacesWellFormed ==
    /\ pc = "parsed" =>
           \A f \in 1..Len(faces) :
               /\ Len(faces[f]) >= 3
               /\ \A j \in 1..Len(faces[f]) : faces[f][j] \in 0..(Len(vertices) - 1)
    /\ pc # "failed"


\* the path is made of points a strategy found, not of a substituted centroid
StrategyPoints ==
    /\ pc = "planned"
    /\ taken \cap {"degenerate_offset", "empty_strategy", "no_valid_point"} = {}

\* p lies strictly inside the rectangular footprint, at least `margin` away
\* from each of its sides
InsideFootprintBy(p, margin) ==
    /\ p[1] - FootMinX * p[3] >= margin * p[3] /\ FootMaxX * p[3] - p[1] >= margin * p[3]
    /\ p[2] - FootMinY * p[3] >= margin * p[3] /\ FootMaxY * p[3] - p[2] >= margin * p[3]
    /\ p[1] > FootMinX * p[3] /\ p[1] < FootMaxX * p[3]
    /\ p[2] > FootMinY * p[3] /\ p[2] < FootMaxY * p[3]

Materials == {"default", "roof"}

\* the faces read_obj_file keeps: three vertices or more (len(parts) >= 4),
\* with the material current at the face line
PolygonFaces ==
    {[vertices |-> [i \in 1..n |-> IF up THEN i ELSE n + 1 - i], material |-> m] :
        n \in 3..MaxFaceVerts, up \in BOOLEAN, m \in Materials}

TriangulatorFaces == UNION {[1..k -> PolygonFaces] : k \in 0..MaxFaces}

\* triangulate_face_fan with consecutive triples: (v_i-1, v_i, v_i+1)
TriangulateFaceStrip(face) ==
    IF Len(face.vertices) <= 3 THEN <<face>>
    ELSE [i \in 1..(Len(face.vertices) - 2) |->
             [vertices |-> <<face.vertices[i], face.vertices[i + 1], face.vertices[i + 2]>>,
              material |-> face.material]]

\* the loop of triangulate_face_fan from index i on (i counts from 0)
RECURSIVE FanFrom(_, _)
FanFrom(face, i) ==
    IF i >= Len(face.vertices) - 1 THEN <<>>
    ELSE << [vertices |-> <<face.vertices[1], face.vertices[i + 1], face.vertices[i + 2]>>,
             material |-> face.material] >>
         \o FanFrom(face, i + 1)

triangulate_face_fan(face) ==
    IF Len(face.vertices) <= 3 THEN <<face>> ELSE FanFrom(face, 1)

\* triangulate_all_faces: the new self.faces and the returned pair
RECURSIVE TriangulatedFaces(_)
TriangulatedFaces(fs) ==
    IF fs = <<>> THEN <<>>
    ELSE (IF Len(Head(fs).vertices) <= 3 THEN <<Head(fs)>> ELSE triangulate_face_fan(Head(fs)))
         \o TriangulatedFaces(Tail(fs))

triangulate_all_faces(fs) ==
    [faces |-> TriangulatedFaces(fs), returned |-> <<Len(fs), Len(TriangulatedFaces(fs))>>]

\* a triangulator that has read its file; `faces` is self.faces
InitTriangulate ==
    /\ pc = "read"
    /\ vertices = <<>>
    /\ faces \in TriangulatorFaces
    /\ has_scipy = TRUE
    /\ step = 1
    /\ boundary_distance = 0
    /\ grid_scan_mode = TRUE
    /\ scan_direction = "horizontal"
    /\ max_points = DefaultMaxPoints
    /\ NoResults

\* a call of triangulate_all_faces: the first, or one more on its own result
TriangulateAllFaces ==
    /\ pc \in {"read", "triangulated"}
    /\ pc' = "triangulated"
    /\ faces' = triangulate_all_faces(faces).faces
    /\ face_counts' = triangulate_all_faces(faces).returned
    /\ UNCHANGED <<session, vertices, has_scipy, step, boundary_distance, grid_scan_mode,
                   scan_direction, max_points, boundary_points, scan_polygon, scan_path,
                   survey_legs, survey_file_path, log, taken, tour_input, tour_output>>

SpecTriangulate == InitTriangulate /\ [][TriangulateAllFaces]_vars

\* the n - 2 triangles (v0, v_i, v_i+1), i = 1..n-2, of a face of n > 3
\* vertices, with its material; the face itself otherwise
FanOf(face) ==
    LET n == Len(face.vertices)
    IN  IF n > 3
        THEN [i \in 1..(n - 2) |->
                 [vertices |-> <<face.vertices[1], face.vertices[i + 1], face.vertices[i + 2]>>,
                  material |-> face.material]]
        ELSE <<face>>

\* C30: a call of triangulate_all_faces replaces each face of n > 3 vertices
\* by its n - 2 fan triangles in order and with its material, and leaves the
\* other faces in place; afterwards every face has at most 3 vertices, the
\* returned pair is (original face count, sum over the faces of
\* max(1, n - 2)), and a call on the result leaves the faces as they are.
C30_FanTriangulation ==
    [][ /\ faces' = Flatten([k \in 1..Len(faces) |-> FanOf(faces[k])])
        /\ \A k \in 1..Len(faces') : Len(faces'[k].vertices) <= 3
        /\ face_counts' = <<Len(faces),
                            SumSeq([k \in 1..Len(faces) |-> Max2(1, Len(faces[k].vertices) - 2)])>>
        /\ pc = "triangulated" => faces' = faces ]_vars

\* a triangle and a pentagon of another material became four triangles
C30_Witness ==
    /\ pc = "triangulated"
    /\ face_counts = <<2, 4>>
    /\ Len(faces) = 4
    /\ faces[1].material # faces[2].material
    /\ faces[2].vertices[1] = faces[4].vertices[1]
    /\ faces[4].vertices = <<5, 2, 1>>

====
